---- MODULE Spec2Model ----
(***************************************************************************)
(* A model of scripts/generate-oc-component-in-daytona.ts: the pipeline    *)
(* that turns a prompt into a published OpenComponent inside a Daytona     *)
(* sandbox (main, generateOpenComponentInDaytona, the SIGINT handler and   *)
(* the script it generates and runs in the sandbox).                       *)
(*                                                                         *)
(* Text is modelled as a sequence of one-character strings, so that the    *)
(* string operations of the source (toLowerCase, replace, substring, join, *)
(* the UUID test) are computed, not assumed.                               *)
(*                                                                         *)
(* The Daytona SDK is outside the repository.  Of it the model assumes:    *)
(* list()/create()/getUserRootDir() return or raise; executeCommand        *)
(* returns {exitCode, result} or raises, and a command that runs past its  *)
(* timeout makes executeCommand raise.                                     *)
(***************************************************************************)
EXTENDS Integers, Sequences, FiniteSets, TLC

(***************************************************************************)
(* Bounds of the model.                                                    *)
(***************************************************************************)
\* longest free part of a prompt whose name is derived (SpecName)
MaxTail == 3
\* most command-line arguments given to main (Spec)
MaxArgs == 2
\* most events an agent session yields (SpecScript)
MaxEvents == 3

(***************************************************************************)
(* Characters.                                                             *)
(***************************************************************************)
LowerLetters ==
    {"a","b","c","d","e","f","g","h","i","j","k","l","m",
     "n","o","p","q","r","s","t","u","v","w","x","y","z"}

Digits == {"0","1","2","3","4","5","6","7","8","9"}

\* what the regular expression class \s matches (the two used here)
Whitespace == {" ", "\t"}

Hyphen == "-"

\* the characters prompts are built from: a lowercase letter, an uppercase
\* letter, a digit, a hyphen, whitespace and a character the slug drops
Alphabet == {"a", "B", "7", "-", " ", "!"}

Min(a, b) == IF a < b THEN a ELSE b

UpperSeq ==
    <<"A","B","C","D","E","F","G","H","I","J","K","L","M",
      "N","O","P","Q","R","S","T","U","V","W","X","Y","Z">>

LowerSeq ==
    <<"a","b","c","d","e","f","g","h","i","j","k","l","m",
      "n","o","p","q","r","s","t","u","v","w","x","y","z">>

\* String.prototype.toLowerCase, one character
LowerChar(c) ==
    IF \E i \in 1..Len(UpperSeq) : UpperSeq[i] = c
    THEN LowerSeq[CHOOSE i \in 1..Len(UpperSeq) : UpperSeq[i] = c]
    ELSE c

toLowerCase(s) == [i \in 1..Len(s) |-> LowerChar(s[i])]

\* Array.prototype.join(" ")
RECURSIVE Join(_)
Join(ws) ==
    IF ws = <<>> THEN <<>>
    ELSE IF Len(ws) = 1 THEN ws[1]
    ELSE ws[1] \o <<" ">> \o Join(Tail(ws))

(***************************************************************************)
(* The component name (lines 80-88).                                       *)
(***************************************************************************)
NameLimit == 30

\* "generated-component"
GeneratedComponent ==
    <<"g","e","n","e","r","a","t","e","d","-",
      "c","o","m","p","o","n","e","n","t">>

\* [^a-z0-9\s-]: the characters .replace(/[^a-z0-9\s-]/g, '') keeps
KeptChar(c) == c \in LowerLetters \cup Digits \cup Whitespace \cup {Hyphen}

RemoveSpecialChars(s) == SelectSeq(s, KeptChar)

\* .replace(/\s+/g, '-'): each maximal run of whitespace becomes one hyphen
\* (the last character of a run becomes the hyphen, the others go)
SpacesToHyphens(s) ==
    LET marked == [i \in 1..Len(s) |->
                     IF s[i] \notin Whitespace THEN s[i]
                     ELSE IF i < Len(s) /\ s[i + 1] \in Whitespace THEN ""
                     ELSE Hyphen]
        Stays(c) == c # ""
    IN  SelectSeq(marked, Stays)

\* faulty variant of LimitLength: cuts one character too late
LimitLengthOffByOne(s) == SubSeq(s, 1, Min(Len(s), NameLimit + 1))

\* .substring(0, 30)
LimitLength(s) == SubSeq(s, 1, Min(Len(s), NameLimit))

RECURSIVE DropLeadingHyphens(_)
DropLeadingHyphens(s) ==
    IF s # <<>> /\ s[1] = Hyphen THEN DropLeadingHyphens(Tail(s)) ELSE s

RECURSIVE DropTrailingHyphens(_)
DropTrailingHyphens(s) ==
    IF s # <<>> /\ s[Len(s)] = Hyphen
    THEN DropTrailingHyphens(SubSeq(s, 1, Len(s) - 1))
    ELSE s

\* faulty variant of TrimHyphens: only the leading hyphens are removed
TrimLeadingOnly(s) == DropLeadingHyphens(s)

\* .replace(/^-+|-+$/g, '')
TrimHyphens(s) == DropTrailingHyphens(DropLeadingHyphens(s))

\* faulty variant of Slug: the hyphens are trimmed before the truncation
SlugTrimmingFirst(p) ==
    LimitLength(TrimHyphens(SpacesToHyphens(RemoveSpecialChars(toLowerCase(p)))))

\* the chain of lines 81-85
Slug(p) == TrimHyphens(LimitLength(SpacesToHyphens(RemoveSpecialChars(toLowerCase(p)))))

\* line 80-86: prompt ? <chain> : "generated-component"
defaultComponentName(p) == IF p # <<>> THEN Slug(p) ELSE GeneratedComponent

\* line 88: defaultComponentName || "generated-component"
ComponentNameOf(p) ==
    IF defaultComponentName(p) # <<>> THEN defaultComponentName(p) ELSE GeneratedComponent

(***************************************************************************)
(* Identifiers and fixed text.                                             *)
(***************************************************************************)
Rep(c, n) == [i \in 1..n |-> c]

\* a UUID all of whose hexadecimal digits are c
UuidOf(c) ==
    Rep(c, 8) \o <<Hyphen>> \o Rep(c, 4) \o <<Hyphen>> \o Rep(c, 4)
        \o <<Hyphen>> \o Rep(c, 4) \o <<Hyphen>> \o Rep(c, 12)

HexChars == Digits \cup {"a","b","c","d","e","f"} \cup {"A","B","C","D","E","F"}

\* uuidRegex.test(s), lines 399-401
uuidRegex(s) ==
    /\ Len(s) = 36
    /\ \A i \in 1..Len(s) :
         IF i \in {9, 14, 19, 24} THEN s[i] = Hyphen ELSE s[i] \in HexChars

\* the sandbox the provider already holds, one it does not hold, and the
\* one create() makes
ExistingId == UuidOf("a")
UnknownId == UuidOf("7")
CreatedId == UuidOf("B")

\* line 8: "http://host.docker.internal:3030"
REGISTRY_URL ==
    <<"h","t","t","p",":","/","/","h","o","s","t",".","d","o","c","k","e","r",
      ".","i","n","t","e","r","n","a","l",":","3","0","3","0">>

\* what getUserRootDir() returns for a sandbox
UserRootDir == <<"/", "w">>

\* "Create a button component", given as one quoted argument
ButtonPrompt ==
    <<"C","r","e","a","t","e"," ","a"," ","b","u","t","t","o","n"," ","c","o",
      "m","p","o","n","e","n","t">>

\* the words main can be given
Tokens == {ExistingId, UnknownId, <<"B", "7">>, <<"!">>, ButtonPrompt}

RECURSIVE SeqsUpTo(_, _)
SeqsUpTo(S, n) ==
    IF n = 0 THEN {<<>>}
    ELSE LET shorter == SeqsUpTo(S, n - 1)
         IN  shorter \cup {Append(q, x) : q \in {r \in shorter : Len(r) = n - 1}, x \in S}

ArgLists == SeqsUpTo(Tokens, MaxArgs)

\* line 410, the prompt main falls back to
DefaultPrompt ==
    <<"C","r","e","a","t","e"," ","a"," ","b","e","a","u","t","i","f","u","l",
      ","," ","m","o","d","e","r","n"," ","b","u","t","t","o","n"," ","c","o",
      "m","p","o","n","e","n","t"," ","w","i","t","h"," ","m","u","l","t","i",
      "p","l","e"," ","v","a","r","i","a","n","t","s"," ","(","p","r","i","m",
      "a","r","y",","," ","s","e","c","o","n","d","a","r","y",","," ","o","u",
      "t","l","i","n","e",")"," ","a","n","d"," ","d","i","f","f","e","r","e",
      "n","t"," ","s","i","z","e","s","."," ","I","n","c","l","u","d","e"," ",
      "h","o","v","e","r"," ","e","f","f","e","c","t","s"," ","a","n","d"," ",
      "p","r","o","p","e","r"," ","a","c","c","e","s","s","i","b","i","l","i",
      "t","y"," ","f","e","a","t","u","r","e","s",".">>

(***************************************************************************)
(* Errors: the messages thrown by the source, and what the SDK raises.     *)
(***************************************************************************)
NoError == "none"
ErrSandboxNotFound == "Sandbox not found"
ErrInstall == "Failed to install OpenComponents CLI"
ErrInit == "Failed to initialize OpenComponent"
ErrGeneration == "Component generation failed"
ErrBuild == "Component build failed"
ErrPublish == "Component publish failed - check if registry is running"
\* raised by the SDK
ProviderError == "provider error"
CommandTimeout == "command timed out"
CommandError == "command raised"

(***************************************************************************)
(* Commands sent to the sandbox.                                           *)
(***************************************************************************)
InstallOcCmd == "npm install -g oc"
InstallSdkCmd == "npm install @anthropic-ai/claude-code@latest"
InitCmd == "oc init"
WriteScriptCmd == "cat > generate-component.js"
GenerateCmd == "node generate-component.js"
ListFilesCmd == "ls -la && cat package.json"
BuildCmd == "oc build ."
DebugBuildCmd == "oc build . --verbose"
PublishCmd == "oc publish ."
CheckRegistryCmd == "curl -f REGISTRY_URL || echo"
TestComponentCmd == "curl -f componentUrl || echo"
DebugInfoCmd == "pwd && ls -la"

\* how a call of executeCommand ends: exit code 0, another exit code, the
\* timeout elapsing, or another error raised by the SDK
Outcomes == {"ok", "nonzero", "timeout", "raise"}

\* curl -f URL || echo '...': exit code 0 both when the URL answers ("ok")
\* and when it does not ("unreachable", the echo ran)
ProbeOutcomes == {"ok", "unreachable", "nonzero", "timeout", "raise"}

\* what executeCommand raises
Raised(out) == IF out = "timeout" THEN CommandTimeout ELSE CommandError

\* files of the component directory the model tracks
ViewFile == "view.js"
ManifestFile == "package.json"
ScriptFile == "generate-component.js"
LogFile == "generation-log.json"

\* what `oc init` puts in the component directory
Skeleton == {ViewFile, ManifestFile}

VARIABLES
    args,          \* process.argv.slice(2)
    env,           \* which of the two API keys process.env holds
    pc,            \* where the process is
    prompt,        \* the prompt parameter
    sandbox,       \* id of the sandbox object bound to `sandbox`, <<>> if unbound
    sandboxId,     \* the variable sandboxId (<<>>: undefined)
    rootDir,       \* the constant rootDir (<<>> before line 49)
    componentName, \* the variable componentName
    cmds,          \* every executeCommand call made, in order, with how it ended
    daytonaCalls,  \* every call of the Daytona client, in order
    alive,         \* sandboxes that exist at the provider
    files,         \* files in the component directory
    error,         \* the error caught at line 366
    result,        \* <<r>> once the function returned r
    exitStatus,    \* process exit status, -1 while running
    interrupted    \* history: the SIGINT handler of line 428 has run

\* the generated script generate-component.js (lines 109-233), as a process
VARIABLES
    stream,        \* events the session of line 165 has yet to yield
    ending,        \* how the stream ends once they are yielded
    messages,      \* the array `messages` of line 161
    logFile,       \* <<m>> once generation-log.json holds m, <<>> before
    scriptPc       \* where the script is

scriptVars == <<stream, ending, messages, logFile, scriptPc>>

\* the script is not running
ScriptIdle ==
    /\ stream = <<>>
    /\ ending = "complete"
    /\ messages = <<>>
    /\ logFile = <<>>
    /\ scriptPc = "idle"

\* two pipeline processes publishing to the one registry at REGISTRY_URL
VARIABLES
    runPrompt,     \* the prompt of each run
    runVersion,    \* the version in the package.json each run publishes
    fate,          \* the stage at which the environment fails each run, 0: none
    runStage,      \* the stage each run is to execute next
    runFailed,     \* the stage each run failed at, 0: none
    registry       \* the <<name, version>> pairs the registry holds

pairVars == <<runPrompt, runVersion, fate, runStage, runFailed, registry>>

\* the two runs
Runs == {"A", "B"}

\* no second pipeline process is running
PairIdle ==
    /\ runPrompt = [r \in Runs |-> <<>>]
    /\ runVersion = [r \in Runs |-> "1.0.0"]
    /\ fate = [r \in Runs |-> 0]
    /\ runStage = [r \in Runs |-> 1]
    /\ runFailed = [r \in Runs |-> 0]
    /\ registry = {}

\* the clean utility (scripts/oc-clean-registry.ts) and the registry directory
VARIABLES
    cleanArgs,       \* process.argv.slice(2) of the utility
    registryDir,     \* REGISTRY_DIR exists
    fs,              \* what each entry of REGISTRY_DIR is: absent, file or dir
    published,       \* the component directories inside COMPONENTS_DIR
    registryRunning, \* a registry process is serving on REGISTRY_PORT
    netstat,         \* what `netstat -an` yields about the port
    componentsCount, \* the variable componentsCount
    isRunning,       \* the variable isRunning
    cleanPc,         \* where the utility is, or how it ended
    cleanExit        \* process exit status, -1 while running

cleanVars == <<cleanArgs, registryDir, fs, published, registryRunning, netstat,
               componentsCount, isRunning, cleanPc, cleanExit>>

\* lines 96-100: possibleLogFiles, in order
possibleLogFiles == <<"registry.log", "npm-debug.log", "error.log">>

\* the entries of REGISTRY_DIR the utility looks at
Entries ==
    {"components", "temp", "node_modules"}
        \cup {possibleLogFiles[i] : i \in DOMAIN possibleLogFiles}

\* the clean utility is not running, on a machine without a registry directory
CleanIdle ==
    /\ cleanArgs = {}
    /\ registryDir = FALSE
    /\ fs = [x \in Entries |-> "absent"]
    /\ published = {}
    /\ registryRunning = FALSE
    /\ netstat = "clear"
    /\ componentsCount = 0
    /\ isRunning = FALSE
    /\ cleanPc = "idle"
    /\ cleanExit = -1

\* the setup utility (scripts/setup-oc-registry.ts) and the registry directory
\* it builds
VARIABLES
    disk,        \* REGISTRY_DIR: which entries exist and what the files hold
    setupPc,     \* where the setup utility is, or "done" once it has exited
    setupExit,   \* its process exit status, -1 while running or not started
    setupRuns    \* one record per run: the directory before and after it,
                 \* how its two npm installs end, and its exit status

setupVars == <<disk, setupPc, setupExit, setupRuns>>

\* the registry directory does not exist
NoRegistryDir ==
    [dir |-> FALSE, components |-> FALSE, published |-> {},
     config |-> "absent", script |-> "absent", package |-> "absent",
     modules |-> FALSE]

\* the setup utility was never started, on a machine without REGISTRY_DIR
SetupIdle ==
    /\ disk = NoRegistryDir
    /\ setupPc = "idle"
    /\ setupExit = -1
    /\ setupRuns = <<>>

\* the start utility (scripts/start-oc-registry.ts)
VARIABLES
    startPc,       \* where the start utility is, or how it ended
    portInUse,     \* the variable portInUse
    registryProc,  \* registryProcess: none, running, closed or failed
    handlers,      \* process.on("SIGINT"/"SIGTERM", shutdown) was called
    received,      \* the signals the start process has received, in order
    sent,          \* what registryProcess.kill was called with, in order
    timers,        \* pending setTimeout callbacks of shutdown
    startExit      \* process exit status, -1 while running or not started

startVars == <<startPc, portInUse, registryProc, handlers, received, sent,
               timers, startExit>>

\* the start utility was never started
StartIdle ==
    /\ startPc = "idle"
    /\ portInUse = FALSE
    /\ registryProc = "none"
    /\ handlers = FALSE
    /\ received = <<>>
    /\ sent = <<>>
    /\ timers = 0
    /\ startExit = -1

\* the variables of the other programs of the repository
elsewhere == <<scriptVars, pairVars, cleanVars, setupVars, startVars>>

\* the variables of the pipeline process
pipelineVars == <<args, env, pc, prompt, sandbox, sandboxId, rootDir,
                  componentName, cmds, daytonaCalls, alive, files, error,
                  result, exitStatus, interrupted>>

\* the variables the generated script leaves alone
besidesScript == <<pipelineVars, pairVars, cleanVars, setupVars, startVars>>

\* the variables a pair of runs leaves alone
besidesPair == <<pipelineVars, scriptVars, cleanVars, setupVars, startVars>>

\* the variables the clean utility leaves alone
besidesClean == <<pipelineVars, scriptVars, pairVars, setupVars, startVars>>

\* the variables the setup utility leaves alone
besidesSetup == <<pipelineVars, scriptVars, pairVars, cleanVars, startVars>>

\* the variables the start utility and the setup it spawns leave alone
besidesStart == <<pipelineVars, scriptVars, pairVars, cleanVars>>

vars == <<pipelineVars, elsewhere>>

\* line 93
componentDir == rootDir \o <<"/">> \o componentName

\* line 322
componentUrl == REGISTRY_URL \o componentName

Command(c, cwd, arg, out) ==
    [c |-> c, sb |-> sandbox, cwd |-> cwd, arg |-> arg, out |-> out]

Init ==
    /\ args \in ArgLists
    /\ env \in [{"DAYTONA_API_KEY", "ANTHROPIC_API_KEY"} -> BOOLEAN]
    /\ pc = "main"
    /\ prompt = <<>>
    /\ sandbox = <<>>
    /\ sandboxId = <<>>
    /\ rootDir = <<>>
    /\ componentName = <<>>
    /\ cmds = <<>>
    /\ daytonaCalls = <<>>
    /\ alive = {ExistingId}
    /\ files = {}
    /\ error = NoError
    /\ result = <<>>
    /\ exitStatus = -1
    /\ interrupted = FALSE
    /\ ScriptIdle
    /\ PairIdle
    /\ CleanIdle
    /\ SetupIdle
    /\ StartIdle

(***************************************************************************)
(* main (lines 391-425) and the SIGINT handler (lines 428-431).            *)
(***************************************************************************)
\* lines 397-407: the sandbox id main reads from the arguments
ParsedSandboxId(a) ==
    IF Len(a) > 0 /\ uuidRegex(a[1]) THEN a[1] ELSE <<>>

\* faulty variant of ParsedPrompt: no fallback to the default prompt
ParsedPromptNoDefault(a) ==
    IF Len(a) > 0
    THEN IF uuidRegex(a[1]) THEN Join(Tail(a)) ELSE Join(a)
    ELSE <<>>

\* lines 397-411: the prompt main reads from the arguments
ParsedPrompt(a) ==
    LET p == IF Len(a) > 0
             THEN IF uuidRegex(a[1]) THEN Join(Tail(a)) ELSE Join(a)
             ELSE <<>>
    IN  IF p = <<>> THEN DefaultPrompt ELSE p

\* lines 392-420: parse the arguments and call the pipeline
Main ==
    /\ pc = "main"
    /\ sandboxId' = ParsedSandboxId(args)
    /\ prompt' = ParsedPrompt(args)
    /\ pc' = "start"
    /\ UNCHANGED <<elsewhere, interrupted, args, env, sandbox, rootDir,
                   componentName, cmds, daytonaCalls, alive, files, error,
                   result, exitStatus>>

\* faulty variant of MainCatch: the error is printed and the process ends
\* normally
MainCatchExitingZero ==
    /\ pc = "mainCatch"
    /\ exitStatus' = 0
    /\ pc' = "exited"
    /\ UNCHANGED <<elsewhere, interrupted, args, env, prompt, sandbox,
                   sandboxId, rootDir, componentName, cmds, daytonaCalls,
                   alive, files, error, result>>

\* lines 421-424: the pipeline threw
MainCatch ==
    /\ pc = "mainCatch"
    /\ exitStatus' = 1
    /\ pc' = "exited"
    /\ UNCHANGED <<elsewhere, interrupted, args, env, prompt, sandbox,
                   sandboxId, rootDir, componentName, cmds, daytonaCalls,
                   alive, files, error, result>>

\* line 420 returned: main ends and the process exits with status 0
MainDone ==
    /\ pc = "returned"
    /\ exitStatus' = 0
    /\ pc' = "exited"
    /\ UNCHANGED <<elsewhere, interrupted, args, env, prompt, sandbox,
                   sandboxId, rootDir, componentName, cmds, daytonaCalls,
                   alive, files, error, result>>

\* faulty variant of Sigint: the handler removes the sandbox before exiting
SigintRemovingSandbox ==
    /\ pc # "exited"
    /\ interrupted' = TRUE
    /\ daytonaCalls' = IF sandbox # <<>>
                       THEN Append(daytonaCalls, [op |-> "delete", out |-> "ok"])
                       ELSE daytonaCalls
    /\ alive' = alive \ {sandbox}
    /\ exitStatus' = 0
    /\ pc' = "exited"
    /\ UNCHANGED <<elsewhere, args, env, prompt, sandbox, sandboxId, rootDir,
                   componentName, cmds, files, error, result>>

\* lines 428-431: SIGINT arrives while the process runs
Sigint ==
    /\ pc # "exited"
    /\ interrupted' = TRUE
    /\ exitStatus' = 0
    /\ pc' = "exited"
    /\ UNCHANGED <<elsewhere, args, env, prompt, sandbox, sandboxId, rootDir,
                   componentName, cmds, daytonaCalls, alive, files, error,
                   result>>

(***************************************************************************)
(* generateOpenComponentInDaytona (lines 10-388).                          *)
(***************************************************************************)
\* faulty variant of CheckCredentials: only the Daytona key is required
CheckCredentialsDaytonaOnly ==
    /\ pc = "start"
    /\ IF env["DAYTONA_API_KEY"]
       THEN pc' = "acquire" /\ exitStatus' = exitStatus
       ELSE pc' = "exited" /\ exitStatus' = 1
    /\ UNCHANGED <<elsewhere, interrupted, args, env, prompt, sandbox,
                   sandboxId, rootDir, componentName, cmds, daytonaCalls,
                   alive, files, error, result>>

\* lines 16-19
CheckCredentials ==
    /\ pc = "start"
    /\ IF env["DAYTONA_API_KEY"] /\ env["ANTHROPIC_API_KEY"]
       THEN pc' = "acquire" /\ exitStatus' = exitStatus
       ELSE pc' = "exited" /\ exitStatus' = 1
    /\ UNCHANGED <<elsewhere, interrupted, args, env, prompt, sandbox,
                   sandboxId, rootDir, componentName, cmds, daytonaCalls,
                   alive, files, error, result>>

\* faulty variant of FindSandbox: falls back to some sandbox of the list
FindSandboxOrAny(sandboxes, id) ==
    IF id \in sandboxes THEN id
    ELSE IF sandboxes = {} THEN <<>>
    ELSE CHOOSE x \in sandboxes : TRUE

\* line 34: sandboxes.find(s => s.id === sandboxId), <<>> when there is none
FindSandbox(sandboxes, id) == IF id \in sandboxes THEN id ELSE <<>>

\* faulty variant of UseExistingSandbox: a sandbox that is not found is
\* replaced by a new one
UseExistingOrCreate ==
    /\ pc = "acquire"
    /\ sandboxId # <<>>
    /\ \E out \in {"ok", "raise"} :
         IF out = "raise"
         THEN /\ daytonaCalls' = Append(daytonaCalls, [op |-> "list", out |-> out])
              /\ error' = ProviderError
              /\ pc' = "catch"
              /\ UNCHANGED <<sandbox, alive>>
         ELSE IF FindSandbox(alive, sandboxId) = <<>>
         THEN /\ daytonaCalls' = daytonaCalls
                                   \o << [op |-> "list", out |-> "ok"],
                                         [op |-> "create", out |-> "ok"] >>
              /\ sandbox' = CreatedId
              /\ alive' = alive \cup {CreatedId}
              /\ error' = error
              /\ pc' = "rootDir"
         ELSE /\ daytonaCalls' = Append(daytonaCalls, [op |-> "list", out |-> out])
              /\ sandbox' = FindSandbox(alive, sandboxId)
              /\ alive' = alive
              /\ error' = error
              /\ pc' = "rootDir"
    /\ UNCHANGED <<elsewhere, interrupted, args, env, prompt, sandboxId,
                   rootDir, componentName, cmds, files, result, exitStatus>>

\* lines 31-38: reattach to the sandbox named on the command line
UseExistingSandbox ==
    /\ pc = "acquire"
    /\ sandboxId # <<>>
    /\ \E out \in {"ok", "raise"} :
         /\ daytonaCalls' = Append(daytonaCalls, [op |-> "list", out |-> out])
         /\ IF out = "raise"
            THEN /\ error' = ProviderError
                 /\ pc' = "catch"
                 /\ sandbox' = sandbox
            ELSE /\ sandbox' = FindSandbox(alive, sandboxId)
                 /\ IF FindSandbox(alive, sandboxId) = <<>>
                    THEN error' = ErrSandboxNotFound /\ pc' = "catch"
                    ELSE error' = error /\ pc' = "rootDir"
    /\ UNCHANGED <<elsewhere, interrupted, args, env, prompt, sandboxId,
                   rootDir, componentName, cmds, alive, files, result,
                   exitStatus>>

\* faulty variant of CreateSandbox: the id of the new sandbox is not stored
\* in sandboxId (line 45 left out)
CreateSandboxForgettingId ==
    /\ pc = "acquire"
    /\ sandboxId = <<>>
    /\ \E out \in {"ok", "raise"} :
         /\ daytonaCalls' = Append(daytonaCalls, [op |-> "create", out |-> out])
         /\ IF out = "raise"
            THEN /\ error' = ProviderError
                 /\ pc' = "catch"
                 /\ UNCHANGED <<sandbox, alive>>
            ELSE /\ sandbox' = CreatedId
                 /\ alive' = alive \cup {CreatedId}
                 /\ error' = error
                 /\ pc' = "rootDir"
    /\ UNCHANGED <<elsewhere, interrupted, args, env, prompt, sandboxId,
                   rootDir, componentName, cmds, files, result, exitStatus>>

\* lines 39-47: create a sandbox
CreateSandbox ==
    /\ pc = "acquire"
    /\ sandboxId = <<>>
    /\ \E out \in {"ok", "raise"} :
         /\ daytonaCalls' = Append(daytonaCalls, [op |-> "create", out |-> out])
         /\ IF out = "raise"
            THEN /\ error' = ProviderError
                 /\ pc' = "catch"
                 /\ UNCHANGED <<sandbox, sandboxId, alive>>
            ELSE /\ sandbox' = CreatedId
                 /\ sandboxId' = CreatedId
                 /\ alive' = alive \cup {CreatedId}
                 /\ error' = error
                 /\ pc' = "rootDir"
    /\ UNCHANGED <<elsewhere, interrupted, args, env, prompt, rootDir,
                   componentName, cmds, files, result, exitStatus>>

\* line 49
GetUserRootDir ==
    /\ pc = "rootDir"
    /\ \E out \in {"ok", "raise"} :
         IF out = "ok"
         THEN rootDir' = UserRootDir /\ pc' = "installOc" /\ error' = error
         ELSE rootDir' = rootDir /\ pc' = "catch" /\ error' = CommandError
    /\ UNCHANGED <<elsewhere, interrupted, args, env, prompt, sandbox,
                   sandboxId, componentName, cmds, daytonaCalls, alive,
                   files, result, exitStatus>>

\* lines 56-67: install the oc CLI, exit code checked
InstallOc ==
    /\ pc = "installOc"
    /\ \E out \in Outcomes :
         /\ cmds' = Append(cmds, Command(InstallOcCmd, rootDir, <<>>, out))
         /\ IF out = "ok"
            THEN pc' = "installSdk" /\ error' = error
            ELSE /\ pc' = "catch"
                 /\ error' = IF out = "nonzero" THEN ErrInstall ELSE Raised(out)
    /\ UNCHANGED <<elsewhere, interrupted, args, env, prompt, sandbox,
                   sandboxId, rootDir, componentName, daytonaCalls, alive,
                   files, result, exitStatus>>

\* lines 70-76: install the Claude Code SDK, the result is not looked at
InstallSdk ==
    /\ pc = "installSdk"
    /\ \E out \in Outcomes :
         /\ cmds' = Append(cmds, Command(InstallSdkCmd, rootDir, <<>>, out))
         /\ IF out \in {"ok", "nonzero"}
            THEN pc' = "name" /\ error' = error
            ELSE pc' = "catch" /\ error' = Raised(out)
    /\ UNCHANGED <<elsewhere, interrupted, args, env, prompt, sandbox,
                   sandboxId, rootDir, componentName, daytonaCalls, alive,
                   files, result, exitStatus>>

\* lines 79-89
GenerateName ==
    /\ pc = "name"
    /\ componentName' = ComponentNameOf(prompt)
    /\ pc' = "init"
    /\ UNCHANGED <<elsewhere, interrupted, args, env, prompt, sandbox,
                   sandboxId, rootDir, cmds, daytonaCalls, alive, files,
                   error, result, exitStatus>>

\* lines 93-104: oc init <componentName>, exit code checked
InitComponent ==
    /\ pc = "init"
    /\ \E out \in Outcomes :
         /\ cmds' = Append(cmds, Command(InitCmd, rootDir, componentName, out))
         /\ IF out = "ok"
            THEN pc' = "writeScript" /\ error' = error /\ files' = Skeleton
            ELSE /\ pc' = "catch"
                 /\ error' = IF out = "nonzero" THEN ErrInit ELSE Raised(out)
                 /\ files' = files
    /\ UNCHANGED <<elsewhere, interrupted, args, env, prompt, sandbox,
                   sandboxId, rootDir, componentName, daytonaCalls, alive,
                   result, exitStatus>>

\* lines 236-242: write generate-component.js, the result is not looked at
WriteScript ==
    /\ pc = "writeScript"
    /\ \E out \in Outcomes :
         /\ cmds' = Append(cmds, Command(WriteScriptCmd, componentDir, <<>>, out))
         /\ files' = IF out = "ok" THEN files \cup {ScriptFile} ELSE files
         /\ IF out \in {"ok", "nonzero"}
            THEN pc' = "generate" /\ error' = error
            ELSE pc' = "catch" /\ error' = Raised(out)
    /\ UNCHANGED <<elsewhere, interrupted, args, env, prompt, sandbox,
                   sandboxId, rootDir, componentName, daytonaCalls, alive,
                   result, exitStatus>>

(***************************************************************************)
(* The generated script (lines 109-233), run by `node                      *)
(* generate-component.js` in the component directory.                      *)
(***************************************************************************)
\* how the agent session of lines 165-201 ends: the stream is exhausted, or
\* query() or the loop body throws
Sessions == {"complete", "error"}

\* lines 164-230, the exit code of the script for a session and the files
\* found afterwards: the catch block exits with 1; the structure check of
\* lines 214-224 only prints
ScriptExit(session, after) == IF session = "complete" THEN "ok" ELSE "nonzero"

\* lines 165-207: the files of the component directory after a run of the
\* script that left `kept` of the skeleton (the agent may write and delete
\* with its Write, Edit and Bash tools); the log is written at line 207
FilesAfter(before, kept, finished) ==
    kept \cup (before \cap {ScriptFile}) \cup (IF finished THEN {LogFile} ELSE {})

\* lines 249-264: run the script under a 10 minute timeout, exit code checked
RunGeneration ==
    /\ pc = "generate"
    /\ \E how \in {"exit", "timeout", "raise"}, session \in Sessions,
          kept \in SUBSET Skeleton :
         LET started == ScriptFile \in files
             after == IF started
                      THEN FilesAfter(files, kept, how = "exit" /\ session = "complete")
                      ELSE files
             out == IF how # "exit" THEN how
                    ELSE IF started THEN ScriptExit(session, after)
                    ELSE "nonzero"
         IN  /\ cmds' = Append(cmds, Command(GenerateCmd, componentDir, <<>>, out))
             /\ files' = after
             /\ IF out = "ok"
                THEN pc' = "listFiles" /\ error' = error
                ELSE /\ pc' = "catch"
                     /\ error' = IF out = "nonzero" THEN ErrGeneration ELSE Raised(out)
    /\ UNCHANGED <<elsewhere, interrupted, args, env, prompt, sandbox,
                   sandboxId, rootDir, componentName, daytonaCalls, alive,
                   result, exitStatus>>

\* lines 268-272: list the files, the result is only printed
ListFiles ==
    /\ pc = "listFiles"
    /\ \E out \in Outcomes :
         /\ cmds' = Append(cmds, Command(ListFilesCmd, componentDir, <<>>, out))
         /\ IF out \in {"ok", "nonzero"}
            THEN pc' = "build" /\ error' = error
            ELSE pc' = "catch" /\ error' = Raised(out)
    /\ UNCHANGED <<elsewhere, interrupted, args, env, prompt, sandbox,
                   sandboxId, rootDir, componentName, daytonaCalls, alive,
                   files, result, exitStatus>>

\* lines 276-283: oc build . , exit code checked
Build ==
    /\ pc = "build"
    /\ \E out \in Outcomes :
         /\ cmds' = Append(cmds, Command(BuildCmd, componentDir, <<>>, out))
         /\ IF out = "ok" THEN pc' = "publish" /\ error' = error
            ELSE IF out = "nonzero" THEN pc' = "debugBuild" /\ error' = error
            ELSE pc' = "catch" /\ error' = Raised(out)
    /\ UNCHANGED <<elsewhere, interrupted, args, env, prompt, sandbox,
                   sandboxId, rootDir, componentName, daytonaCalls, alive,
                   files, result, exitStatus>>

\* faulty variant of DebugBuild: a verbose build that succeeds lets the run
\* go on to publish
DebugBuildRecovering ==
    /\ pc = "debugBuild"
    /\ \E out \in Outcomes :
         /\ cmds' = Append(cmds, Command(DebugBuildCmd, componentDir, <<>>, out))
         /\ IF out = "ok"
            THEN pc' = "publish" /\ error' = error
            ELSE /\ pc' = "catch"
                 /\ error' = IF out = "nonzero" THEN ErrBuild ELSE Raised(out)
    /\ UNCHANGED <<elsewhere, interrupted, args, env, prompt, sandbox,
                   sandboxId, rootDir, componentName, daytonaCalls, alive,
                   files, result, exitStatus>>

\* lines 284-291: the verbose build after a failed build, then the throw
DebugBuild ==
    /\ pc = "debugBuild"
    /\ \E out \in Outcomes :
         /\ cmds' = Append(cmds, Command(DebugBuildCmd, componentDir, <<>>, out))
         /\ error' = IF out \in {"ok", "nonzero"} THEN ErrBuild ELSE Raised(out)
    /\ pc' = "catch"
    /\ UNCHANGED <<elsewhere, interrupted, args, env, prompt, sandbox,
                   sandboxId, rootDir, componentName, daytonaCalls, alive,
                   files, result, exitStatus>>

\* faulty variant of Publish: a publish that times out takes the sandbox
\* down with it
PublishTimeoutRemovesSandbox ==
    /\ pc = "publish"
    /\ \E out \in Outcomes :
         /\ cmds' = Append(cmds, Command(PublishCmd, componentDir,
                                         REGISTRY_URL, out))
         /\ alive' = IF out = "timeout" THEN alive \ {sandbox} ELSE alive
         /\ IF out = "ok" THEN pc' = "testComponent" /\ error' = error
            ELSE IF out = "nonzero" THEN pc' = "checkRegistry" /\ error' = error
            ELSE pc' = "catch" /\ error' = Raised(out)
    /\ UNCHANGED <<elsewhere, interrupted, args, env, prompt, sandbox,
                   sandboxId, rootDir, componentName, daytonaCalls, files,
                   result, exitStatus>>

\* lines 299-308: oc publish . REGISTRY_URL, exit code checked
Publish ==
    /\ pc = "publish"
    /\ \E out \in Outcomes :
         /\ cmds' = Append(cmds, Command(PublishCmd, componentDir, REGISTRY_URL, out))
         /\ IF out = "ok" THEN pc' = "testComponent" /\ error' = error
            ELSE IF out = "nonzero" THEN pc' = "checkRegistry" /\ error' = error
            ELSE pc' = "catch" /\ error' = Raised(out)
    /\ UNCHANGED <<elsewhere, interrupted, args, env, prompt, sandbox,
                   sandboxId, rootDir, componentName, daytonaCalls, alive,
                   files, result, exitStatus>>

\* line 316: the error thrown after the registry check, whatever it showed
PublishError(probe) == ErrPublish

\* faulty variant of CheckRegistry: a registry that answers lets the run go
\* on to the verification of the component
CheckRegistryRecovering ==
    /\ pc = "checkRegistry"
    /\ \E out \in ProbeOutcomes :
         /\ cmds' = Append(cmds, Command(CheckRegistryCmd, componentDir,
                                         REGISTRY_URL, out))
         /\ IF out = "ok"
            THEN pc' = "testComponent" /\ error' = error
            ELSE /\ pc' = "catch"
                 /\ error' = IF out \in {"timeout", "raise"} THEN Raised(out)
                             ELSE PublishError(out)
    /\ UNCHANGED <<elsewhere, interrupted, args, env, prompt, sandbox,
                   sandboxId, rootDir, componentName, daytonaCalls, alive,
                   files, result, exitStatus>>

\* lines 309-317: probe the registry after a failed publish, then the throw
CheckRegistry ==
    /\ pc = "checkRegistry"
    /\ \E out \in ProbeOutcomes :
         /\ cmds' = Append(cmds, Command(CheckRegistryCmd, componentDir, REGISTRY_URL, out))
         /\ error' = IF out \in {"timeout", "raise"} THEN Raised(out) ELSE PublishError(out)
    /\ pc' = "catch"
    /\ UNCHANGED <<elsewhere, interrupted, args, env, prompt, sandbox,
                   sandboxId, rootDir, componentName, daytonaCalls, alive,
                   files, result, exitStatus>>

\* lines 322-329: probe the component URL, the result is only printed
TestComponent ==
    /\ pc = "testComponent"
    /\ \E out \in ProbeOutcomes :
         /\ cmds' = Append(cmds, Command(TestComponentCmd, componentDir, componentUrl, out))
         /\ IF out \in {"timeout", "raise"}
            THEN pc' = "catch" /\ error' = Raised(out)
            ELSE pc' = "success" /\ error' = error
    /\ UNCHANGED <<elsewhere, interrupted, args, env, prompt, sandbox,
                   sandboxId, rootDir, componentName, daytonaCalls, alive,
                   files, result, exitStatus>>

\* lines 357-364
ReturnSuccess ==
    /\ pc = "success"
    /\ result' = << [success |-> TRUE,
                     sandboxId |-> sandboxId,
                     componentName |-> componentName,
                     componentDir |-> componentDir,
                     componentUrl |-> componentUrl,
                     registryUrl |-> REGISTRY_URL] >>
    /\ pc' = "returned"
    /\ UNCHANGED <<elsewhere, interrupted, args, env, prompt, sandbox,
                   sandboxId, rootDir, componentName, cmds, daytonaCalls,
                   alive, files, error, exitStatus>>

\* lines 374-383: the commands issued after the debug-information attempt.
\* rootDir is a const of the try block (line 49) and is not in scope in the
\* catch block: evaluating the argument list at line 377 raises a
\* ReferenceError before executeCommand is called, and line 381 swallows it
DebugInfo == cmds

\* lines 367-371: what the catch block prints about the failure: the message
\* of the error, and the sandbox id only when `sandbox` is bound
ErrorReport ==
    [message |-> error,
     sandboxId |-> IF sandbox # <<>> THEN <<sandboxId>> ELSE <<>>]

\* the stage a message names, 0 when it names none: the messages of lines 36,
\* 65, 102, 263, 291 and 316; an error raised by the SDK carries the SDK's text
StageNamedBy(message) ==
    CASE message = ErrSandboxNotFound -> 1
      [] message = ErrInstall -> 2
      [] message = ErrInit -> 3
      [] message = ErrGeneration -> 4
      [] message = ErrBuild -> 5
      [] message = ErrPublish -> 6
      [] OTHER -> 0

\* faulty variant of Catch: the handler empties the component directory
CatchCleaningUp ==
    /\ pc = "catch"
    /\ cmds' = IF sandbox # <<>>
               THEN Append(cmds, Command("rm -rf componentDir", rootDir, componentName, "ok"))
               ELSE cmds
    /\ files' = IF sandbox # <<>> THEN {} ELSE files
    /\ pc' = "mainCatch"
    /\ UNCHANGED <<elsewhere, interrupted, args, env, prompt, sandbox,
                   sandboxId, rootDir, componentName, daytonaCalls, alive,
                   error, result, exitStatus>>

\* faulty variant of Catch: the handler waits for debug information that
\* never comes and does not rethrow
CatchWaiting ==
    /\ pc = "catch"
    /\ pc' = "debugInfo"
    /\ UNCHANGED <<elsewhere, interrupted, args, env, prompt, sandbox,
                   sandboxId, rootDir, componentName, cmds, daytonaCalls,
                   alive, files, error, result, exitStatus>>

\* faulty variant of Catch: the debug command is issued and an error it
\* raises replaces the error of the stage
CatchRethrowingDebugError ==
    /\ pc = "catch"
    /\ \E out \in Outcomes :
         IF sandbox # <<>>
         THEN /\ cmds' = Append(cmds, Command(DebugInfoCmd, rootDir,
                                              componentName, out))
              /\ error' = IF out \in {"timeout", "raise"} THEN Raised(out)
                          ELSE error
         ELSE cmds' = cmds /\ error' = error
    /\ pc' = "mainCatch"
    /\ UNCHANGED <<elsewhere, interrupted, args, env, prompt, sandbox,
                   sandboxId, rootDir, componentName, daytonaCalls, alive,
                   files, result, exitStatus>>

\* lines 366-387: report, try to collect debug information, rethrow
Catch ==
    /\ pc = "catch"
    /\ cmds' = IF sandbox # <<>> THEN DebugInfo ELSE cmds
    /\ pc' = "mainCatch"
    /\ UNCHANGED <<elsewhere, interrupted, args, env, prompt, sandbox,
                   sandboxId, rootDir, componentName, daytonaCalls, alive,
                   files, error, result, exitStatus>>

Next ==
    \/ Main
    \/ MainCatch
    \/ MainDone
    \/ Sigint
    \/ CheckCredentials
    \/ UseExistingSandbox
    \/ CreateSandbox
    \/ GetUserRootDir
    \/ InstallOc
    \/ InstallSdk
    \/ GenerateName
    \/ InitComponent
    \/ WriteScript
    \/ RunGeneration
    \/ ListFiles
    \/ Build
    \/ DebugBuild
    \/ Publish
    \/ CheckRegistry
    \/ TestComponent
    \/ ReturnSuccess
    \/ Catch

Spec == Init /\ [][Next]_vars

\* a step of GenerateName, told by what it does to pc
NameDerived == pc = "name" /\ pc' = "init"

\* the steps the process takes by itself: every call of the provider and
\* every remote command eventually returns, exits non-zero, times out or
\* raises, and the runtime then runs the continuation; a signal may never come
Progress ==
    \/ Main
    \/ MainCatch
    \/ MainDone
    \/ CheckCredentials
    \/ UseExistingSandbox
    \/ CreateSandbox
    \/ GetUserRootDir
    \/ InstallOc
    \/ InstallSdk
    \/ NameDerived
    \/ InitComponent
    \/ WriteScript
    \/ RunGeneration
    \/ ListFiles
    \/ Build
    \/ DebugBuild
    \/ Publish
    \/ CheckRegistry
    \/ TestComponent
    \/ ReturnSuccess
    \/ Catch

\* every step of Progress changes pc
SpecLive == Init /\ [][Next]_vars /\ WF_pc(Progress)

(***************************************************************************)
(* The name derivation on its own: generateOpenComponentInDaytona called   *)
(* with a prompt of any shape, taken at line 78 (a sandbox was created and *)
(* both installs ran).                                                     *)
(***************************************************************************)
\* the free parts of the prompts: every text of up to MaxTail characters
Tails == SeqsUpTo(Alphabet, MaxTail)

\* how many letters precede the free part: none, or enough to end around
\* the limit of the name
PadLengths == {0} \cup ((NameLimit - MaxTail) .. (NameLimit + 1))

NamePrompts == {Rep("a", k) \o t : k \in PadLengths, t \in Tails}

InitName ==
    /\ args = <<>>
    /\ env = [k \in {"DAYTONA_API_KEY", "ANTHROPIC_API_KEY"} |-> TRUE]
    /\ pc = "name"
    /\ prompt \in NamePrompts
    /\ sandbox = CreatedId
    /\ sandboxId = CreatedId
    /\ rootDir = UserRootDir
    /\ componentName = <<>>
    /\ cmds = << [c |-> InstallOcCmd, sb |-> CreatedId, cwd |-> UserRootDir,
                  arg |-> <<>>, out |-> "ok"],
                 [c |-> InstallSdkCmd, sb |-> CreatedId, cwd |-> UserRootDir,
                  arg |-> <<>>, out |-> "ok"] >>
    /\ daytonaCalls = << [op |-> "create", out |-> "ok"] >>
    /\ alive = {ExistingId, CreatedId}
    /\ files = {}
    /\ error = NoError
    /\ result = <<>>
    /\ exitStatus = -1
    /\ interrupted = FALSE
    /\ ScriptIdle
    /\ PairIdle
    /\ CleanIdle
    /\ SetupIdle
    /\ StartIdle

NextName == GenerateName

SpecName == InitName /\ [][NextName]_vars

(***************************************************************************)
(* The generated script as a process of its own: the session of lines      *)
(* 165-201 yields its events one at a time, and the script handles each.   *)
(***************************************************************************)
\* the types of message the loop tells apart (lines 187-200), and any other
EventTypes == {"text", "tool_use", "result", "system"}

SessionEvents == SeqsUpTo(EventTypes, MaxEvents)

\* the pipeline has written the script and is about to run it (line 249)
InitScript ==
    /\ args = <<>>
    /\ env = [k \in {"DAYTONA_API_KEY", "ANTHROPIC_API_KEY"} |-> TRUE]
    /\ pc = "generate"
    /\ prompt = DefaultPrompt
    /\ sandbox = CreatedId
    /\ sandboxId = CreatedId
    /\ rootDir = UserRootDir
    /\ componentName = ComponentNameOf(DefaultPrompt)
    /\ cmds = << [c |-> InstallOcCmd, sb |-> CreatedId, cwd |-> UserRootDir,
                  arg |-> <<>>, out |-> "ok"],
                 [c |-> InstallSdkCmd, sb |-> CreatedId, cwd |-> UserRootDir,
                  arg |-> <<>>, out |-> "ok"],
                 [c |-> InitCmd, sb |-> CreatedId, cwd |-> UserRootDir,
                  arg |-> ComponentNameOf(DefaultPrompt), out |-> "ok"],
                 [c |-> WriteScriptCmd, sb |-> CreatedId,
                  cwd |-> UserRootDir \o <<"/">> \o ComponentNameOf(DefaultPrompt),
                  arg |-> <<>>, out |-> "ok"] >>
    /\ daytonaCalls = << [op |-> "create", out |-> "ok"] >>
    /\ alive = {ExistingId, CreatedId}
    /\ files = Skeleton \cup {ScriptFile}
    /\ error = NoError
    /\ result = <<>>
    /\ exitStatus = -1
    /\ interrupted = FALSE
    /\ stream \in SessionEvents
    /\ ending \in Sessions
    /\ messages = <<>>
    /\ logFile = <<>>
    /\ scriptPc = "loop"
    /\ PairIdle
    /\ CleanIdle
    /\ SetupIdle
    /\ StartIdle

\* lines 165-201: the session yields a message; it is pushed on `messages`
\* and its progress line is printed
Consume ==
    /\ scriptPc = "loop"
    /\ stream # <<>>
    /\ messages' = Append(messages, Head(stream))
    /\ stream' = Tail(stream)
    /\ UNCHANGED <<besidesScript, ending, logFile, scriptPc>>

\* lines 203-224: the stream is exhausted; the log is written (writeFileSync
\* may throw, which the catch block turns into exit code 1) and the
\* structure check only prints
SaveLog ==
    /\ scriptPc = "loop"
    /\ stream = <<>>
    /\ ending = "complete"
    /\ \E out \in {"ok", "raise"} :
         IF out = "ok"
         THEN logFile' = <<messages>> /\ scriptPc' = "done"
         ELSE logFile' = logFile /\ scriptPc' = "failed"
    /\ UNCHANGED <<besidesScript, stream, ending, messages>>

\* lines 226-230: the stream throws; the catch block prints the error and
\* exits with code 1
StreamThrows ==
    /\ scriptPc = "loop"
    /\ stream = <<>>
    /\ ending = "error"
    /\ scriptPc' = "failed"
    /\ UNCHANGED <<besidesScript, stream, ending, messages, logFile>>

\* line 251: the command running the script is cut short (its timeout
\* expires, or the process is terminated) while the loop runs; the script
\* never calls abortController.abort() and installs no signal handler
Aborted ==
    /\ scriptPc = "loop"
    /\ scriptPc' = "aborted"
    /\ UNCHANGED <<besidesScript, stream, ending, messages, logFile>>

NextScript == Consume \/ SaveLog \/ StreamThrows \/ Aborted

SpecScript == InitScript /\ [][NextScript]_vars

(***************************************************************************)
(* Two runs of the pipeline, each in a sandbox of its own, publishing to   *)
(* the registry at REGISTRY_URL (line 8).  Stages: 1 acquire, 2 install,   *)
(* 3 initialise, 4 generate, 5 build, 6 publish; 7 is the return.          *)
(***************************************************************************)
\* the versions a published package.json may carry: the one `oc init`
\* writes, or one the agent session set
Versions == {"1.0.0", "1.1.0"}

\* the single pipeline process of Spec has not been started
PipelineNotStarted ==
    /\ args = <<>>
    /\ env = [k \in {"DAYTONA_API_KEY", "ANTHROPIC_API_KEY"} |-> TRUE]
    /\ pc = "main"
    /\ prompt = <<>>
    /\ sandbox = <<>>
    /\ sandboxId = <<>>
    /\ rootDir = <<>>
    /\ componentName = <<>>
    /\ cmds = <<>>
    /\ daytonaCalls = <<>>
    /\ alive = {ExistingId}
    /\ files = {}
    /\ error = NoError
    /\ result = <<>>
    /\ exitStatus = -1
    /\ interrupted = FALSE

\* the prompts the two runs are given
PairPrompts == {ButtonPrompt, <<"B", "7">>}

InitPair ==
    /\ PipelineNotStarted
    /\ ScriptIdle
    /\ runPrompt \in [Runs -> PairPrompts]
    /\ runVersion \in [Runs -> Versions]
    /\ fate \in [Runs -> 0..6]
    /\ runStage = [r \in Runs |-> 1]
    /\ runFailed = [r \in Runs |-> 0]
    /\ registry = {}
    /\ CleanIdle
    /\ SetupIdle
    /\ StartIdle

\* what run r publishes: the name derived from its prompt (lines 80-88) at
\* the version of its package.json
Published(r) == <<ComponentNameOf(runPrompt[r]), runVersion[r]>>

\* lines 30-292: a stage that touches only the run's own sandbox
LocalStage(r) ==
    /\ runFailed[r] = 0
    /\ runStage[r] \in 1..5
    /\ IF fate[r] = runStage[r]
       THEN /\ runFailed' = [runFailed EXCEPT ![r] = runStage[r]]
            /\ runStage' = runStage
       ELSE /\ runStage' = [runStage EXCEPT ![r] = runStage[r] + 1]
            /\ runFailed' = runFailed
    /\ UNCHANGED <<besidesPair, runPrompt, runVersion, fate, registry>>

\* lines 299-318: oc publish; the registry keeps published versions
\* immutable, so a name and version it already holds is rejected
PublishStage(r) ==
    /\ runFailed[r] = 0
    /\ runStage[r] = 6
    /\ IF fate[r] = 6 \/ Published(r) \in registry
       THEN /\ runFailed' = [runFailed EXCEPT ![r] = 6]
            /\ UNCHANGED <<runStage, registry>>
       ELSE /\ registry' = registry \cup {Published(r)}
            /\ runStage' = [runStage EXCEPT ![r] = 7]
            /\ runFailed' = runFailed
    /\ UNCHANGED <<besidesPair, runPrompt, runVersion, fate>>

NextPair == \E r \in Runs : LocalStage(r) \/ PublishStage(r)

SpecPair == InitPair /\ [][NextPair]_vars

(***************************************************************************)
(* The clean utility, scripts/oc-clean-registry.ts (lines 1-210).          *)
(***************************************************************************)
\* the components a registry directory may hold
ComponentNames == {"button", "card"}

Kinds == {"absent", "file", "dir"}

\* the arguments the utility may be given: the two spellings of the force
\* flag (line 190) and one it does not know
CleanFlags == {"--force", "-f", "--help"}

\* the utility is started on some registry directory; without REGISTRY_DIR
\* none of its entries exists, and components are directories inside
\* COMPONENTS_DIR
InitClean ==
    /\ PipelineNotStarted
    /\ ScriptIdle
    /\ PairIdle
    /\ SetupIdle
    /\ StartIdle
    /\ cleanArgs \in SUBSET CleanFlags
    /\ registryDir \in BOOLEAN
    /\ fs \in [Entries -> Kinds]
    /\ fs["node_modules"] # "file"
    /\ ~registryDir => fs = [x \in Entries |-> "absent"]
    /\ published \in SUBSET ComponentNames
    /\ fs["components"] # "dir" => published = {}
    /\ registryRunning \in BOOLEAN
    /\ netstat \in {"listed", "clear", "error"}
    /\ registryRunning => registryDir /\ netstat # "clear"
    /\ componentsCount = 0
    /\ isRunning = FALSE
    /\ cleanPc = "main"
    /\ cleanExit = -1

\* faulty variant of force: the flag is taken as given
forceAlways == TRUE

\* line 190
force == "--force" \in cleanArgs \/ "-f" \in cleanArgs

\* lines 166-169 and 205-207: an exception inside cleanRegistry is rethrown
\* and main ends the process with status 1
CleanFails == cleanPc' = "failed" /\ cleanExit' = 1

\* lines 186-199: without the force flag main only prints a warning
CleanMain ==
    /\ cleanPc = "main"
    /\ IF force
       THEN cleanPc' = "analyze" /\ cleanExit' = cleanExit
       ELSE cleanPc' = "refused" /\ cleanExit' = 0
    /\ UNCHANGED <<besidesClean, cleanArgs, registryDir, fs, published,
                   registryRunning, netstat, componentsCount, isRunning>>

\* lines 16-36: nothing to clean without REGISTRY_DIR; otherwise count the
\* components (readdirSync throws when COMPONENTS_DIR is not a directory)
Analyze ==
    /\ cleanPc = "analyze"
    /\ IF ~registryDir
       THEN /\ cleanPc' = "nothing"
            /\ cleanExit' = 0
            /\ componentsCount' = componentsCount
       ELSE IF fs["components"] = "file"
       THEN CleanFails /\ componentsCount' = componentsCount
       ELSE /\ componentsCount' = Cardinality(published)
            /\ cleanPc' = "checkPort"
            /\ cleanExit' = cleanExit
    /\ UNCHANGED <<besidesClean, cleanArgs, registryDir, fs, published,
                   registryRunning, netstat, isRunning>>

\* faulty variant of CheckPort: the warning is printed and the cleanup goes on
CheckPortIgnored ==
    /\ cleanPc = "checkPort"
    /\ isRunning' = (netstat = "listed")
    /\ cleanPc' = "removeComponents"
    /\ UNCHANGED <<besidesClean, cleanArgs, registryDir, fs, published,
                   registryRunning, netstat, componentsCount, cleanExit>>

\* faulty variant of CheckPort: a netstat that cannot be run counts as a
\* registry that may be running
CheckPortFailingClosed ==
    /\ cleanPc = "checkPort"
    /\ isRunning' = (netstat # "clear")
    /\ IF netstat # "clear"
       THEN cleanPc' = "busy" /\ cleanExit' = 0
       ELSE cleanPc' = "removeComponents" /\ cleanExit' = cleanExit
    /\ UNCHANGED <<besidesClean, cleanArgs, registryDir, fs, published,
                   registryRunning, netstat, componentsCount>>

\* lines 38-70: netstat -an; the utility returns when the port is listed; a
\* netstat that cannot be started leaves isRunning false
CheckPort ==
    /\ cleanPc = "checkPort"
    /\ isRunning' = (netstat = "listed")
    /\ IF netstat = "listed"
       THEN cleanPc' = "busy" /\ cleanExit' = 0
       ELSE cleanPc' = "removeComponents" /\ cleanExit' = cleanExit
    /\ UNCHANGED <<besidesClean, cleanArgs, registryDir, fs, published,
                   registryRunning, netstat, componentsCount>>

\* faulty variant of RemoveTemp: the temp directory is left in place
RemoveTempSkipped ==
    /\ cleanPc = "removeTemp"
    /\ cleanPc' = "removeLogs"
    /\ UNCHANGED <<besidesClean, cleanArgs, registryDir, fs, published,
                   registryRunning, netstat, componentsCount, isRunning,
                   cleanExit>>

\* lines 81-85: rmSync(COMPONENTS_DIR), which may throw (permissions, busy)
RemoveComponents ==
    /\ cleanPc = "removeComponents"
    /\ \E out \in {"ok", "raise"} :
         IF fs["components"] = "absent"
         THEN /\ cleanPc' = "removeTemp"
              /\ UNCHANGED <<fs, published, cleanExit>>
         ELSE IF out = "ok"
         THEN /\ fs' = [fs EXCEPT !["components"] = "absent"]
              /\ published' = {}
              /\ cleanPc' = "removeTemp"
              /\ cleanExit' = cleanExit
         ELSE CleanFails /\ UNCHANGED <<fs, published>>
    /\ UNCHANGED <<besidesClean, cleanArgs, registryDir, registryRunning,
                   netstat, componentsCount, isRunning>>

\* lines 88-93: rmSync(tempDir)
RemoveTemp ==
    /\ cleanPc = "removeTemp"
    /\ \E out \in {"ok", "raise"} :
         IF fs["temp"] = "absent"
         THEN cleanPc' = "removeLogs" /\ UNCHANGED <<fs, cleanExit>>
         ELSE IF out = "ok"
         THEN /\ fs' = [fs EXCEPT !["temp"] = "absent"]
              /\ cleanPc' = "removeLogs"
              /\ cleanExit' = cleanExit
         ELSE CleanFails /\ fs' = fs
    /\ UNCHANGED <<besidesClean, cleanArgs, registryDir, published,
                   registryRunning, netstat, componentsCount, isRunning>>

\* the position in possibleLogFiles at which unlinkSync throws (a directory
\* cannot be unlinked), one past the end when it never does
FirstNotUnlinkable ==
    LET bad == {i \in DOMAIN possibleLogFiles : fs[possibleLogFiles[i]] = "dir"}
    IN  IF bad = {} THEN Len(possibleLogFiles) + 1
        ELSE CHOOSE i \in bad : \A j \in bad : i <= j

\* lines 96-107: unlink each log file that exists, in order
RemoveLogs ==
    /\ cleanPc = "removeLogs"
    /\ fs' = [x \in Entries |->
                IF \E i \in 1..(FirstNotUnlinkable - 1) : possibleLogFiles[i] = x
                THEN "absent" ELSE fs[x]]
    /\ IF FirstNotUnlinkable > Len(possibleLogFiles)
       THEN cleanPc' = "recreate" /\ cleanExit' = cleanExit
       ELSE CleanFails
    /\ UNCHANGED <<besidesClean, cleanArgs, registryDir, published,
                   registryRunning, netstat, componentsCount, isRunning>>

\* lines 110-112: mkdirSync(COMPONENTS_DIR, { recursive: true })
RecreateComponents ==
    /\ cleanPc = "recreate"
    /\ \E out \in {"ok", "raise"} :
         IF out = "ok"
         THEN /\ fs' = [fs EXCEPT !["components"] = "dir"]
              /\ cleanPc' = "reinstall"
              /\ cleanExit' = cleanExit
         ELSE CleanFails /\ fs' = fs
    /\ UNCHANGED <<besidesClean, cleanArgs, registryDir, published,
                   registryRunning, netstat, componentsCount, isRunning>>

\* lines 115-164: remove node_modules and run `npm install`, whose exit code
\* does not fail the run (npm that cannot be started raises an unhandled
\* error event, which ends the process); then the summary is printed and
\* main returns
ReinstallAndFinish ==
    /\ cleanPc = "reinstall"
    /\ \E rm \in {"ok", "raise"}, npm \in {"ok", "nonzero", "error"} :
         IF fs["node_modules"] = "absent"
         THEN cleanPc' = "complete" /\ cleanExit' = 0 /\ fs' = fs
         ELSE IF rm = "raise"
         THEN CleanFails /\ fs' = fs
         ELSE IF npm = "error"
         THEN /\ CleanFails
              /\ fs' = [fs EXCEPT !["node_modules"] = "absent"]
         ELSE /\ fs' = [fs EXCEPT !["node_modules"] =
                          IF npm = "ok" THEN "dir" ELSE "absent"]
              /\ cleanPc' = "complete"
              /\ cleanExit' = 0
    /\ UNCHANGED <<besidesClean, cleanArgs, registryDir, published,
                   registryRunning, netstat, componentsCount, isRunning>>

NextClean ==
    \/ CleanMain
    \/ Analyze
    \/ CheckPort
    \/ RemoveComponents
    \/ RemoveTemp
    \/ RemoveLogs
    \/ RecreateComponents
    \/ ReinstallAndFinish

SpecClean == InitClean /\ [][NextClean]_vars

(***************************************************************************)
(* The setup utility, scripts/setup-oc-registry.ts.                        *)
(***************************************************************************)
\* how many times in a row the setup utility is run
MaxRuns == 2

\* lines 281-299: the configuration the utility writes
registryConfig == "registryConfig"

\* lines 307-351: the startup script the utility writes
startupScript == "startupScript"

\* lines 358-368: the package.json the utility writes
registryPackageJson == "registryPackageJson"

\* what a file of the registry directory may hold: nothing (absent), what
\* the utility writes, or something else
ContentsOf(written) == {"absent", written, "custom"}

\* exit codes of an npm child process
NpmCodes == {0, 1}

\* the registry directories the utility may find: without REGISTRY_DIR nothing
\* exists, and components are published inside COMPONENTS_DIR
Disks ==
    {d \in [dir : BOOLEAN, components : BOOLEAN,
            published : SUBSET ComponentNames,
            config : ContentsOf(registryConfig),
            script : ContentsOf(startupScript),
            package : ContentsOf(registryPackageJson),
            modules : BOOLEAN] :
        /\ ~d.dir => d = NoRegistryDir
        /\ ~d.components => d.published = {}}

\* the run of the utility that is in progress, or the last one
SetupRun == setupRuns[Len(setupRuns)]

\* line 443: the utility is started, in an environment where the two npm
\* installs will end with the codes cli and deps
SetupStarts(cli, deps) ==
    /\ setupPc' = "dirs"
    /\ setupExit' = -1
    /\ setupRuns' = Append(setupRuns, [before |-> disk, cli |-> cli,
                                       deps |-> deps, after |-> disk,
                                       exit |-> -1])

\* lines 435-442: main ends the process with status 0 when
\* setupOpenComponentsRegistry returns and with 1 when it throws
SetupEnds(code) ==
    /\ setupPc' = "done"
    /\ setupExit' = code
    /\ setupRuns' = [setupRuns EXCEPT ![Len(setupRuns)] =
                        [@ EXCEPT !.after = disk', !.exit = code]]

\* the utility is run on some registry directory
InitSetup ==
    /\ PipelineNotStarted
    /\ ScriptIdle
    /\ PairIdle
    /\ CleanIdle
    /\ StartIdle
    /\ disk \in Disks
    /\ setupPc = "dirs"
    /\ setupExit = -1
    /\ \E cli \in NpmCodes, deps \in NpmCodes :
          setupRuns = <<[before |-> disk, cli |-> cli, deps |-> deps,
                         after |-> disk, exit |-> -1]>>

\* lines 231-243: both directories are created unless they exist
SetupDirs ==
    /\ setupPc = "dirs"
    /\ disk' = [disk EXCEPT !.dir = TRUE, !.components = TRUE]
    /\ setupPc' = "installCli"
    /\ UNCHANGED <<besidesSetup, setupExit, setupRuns>>

\* lines 245-277: `npm install oc` in the working directory; any code but 0
\* rejects, and the rejection ends the process (lines 428-431, 439-441)
SetupInstallCli ==
    /\ setupPc = "installCli"
    /\ disk' = disk
    /\ IF SetupRun.cli = 0
       THEN setupPc' = "config" /\ UNCHANGED <<setupExit, setupRuns>>
       ELSE SetupEnds(1)
    /\ UNCHANGED besidesSetup

\* lines 279-303: config.json is written, whatever it held
SetupWriteConfig ==
    /\ setupPc = "config"
    /\ disk' = [disk EXCEPT !.config = registryConfig]
    /\ setupPc' = "script"
    /\ UNCHANGED <<besidesSetup, setupExit, setupRuns>>

\* lines 305-355: start-registry.js is written, whatever it held
SetupWriteScript ==
    /\ setupPc = "script"
    /\ disk' = [disk EXCEPT !.script = startupScript]
    /\ setupPc' = "package"
    /\ UNCHANGED <<besidesSetup, setupExit, setupRuns>>

\* faulty variant of SetupWritePackage: package.json is written, whatever
\* it held
SetupWritePackageAlways ==
    /\ setupPc = "package"
    /\ disk' = [disk EXCEPT !.package = registryPackageJson]
    /\ setupPc' = "installDeps"
    /\ UNCHANGED <<besidesSetup, setupExit, setupRuns>>

\* lines 357-374: package.json is written only when there is none
SetupWritePackage ==
    /\ setupPc = "package"
    /\ disk' = IF disk.package = "absent"
               THEN [disk EXCEPT !.package = registryPackageJson]
               ELSE disk
    /\ setupPc' = "installDeps"
    /\ UNCHANGED <<besidesSetup, setupExit, setupRuns>>

\* lines 376-404 and 435-442: `npm install` in REGISTRY_DIR; code 0 leaves
\* node_modules there and the process exits with 0, any other code rejects
SetupInstallDeps ==
    /\ setupPc = "installDeps"
    /\ IF SetupRun.deps = 0
       THEN disk' = [disk EXCEPT !.modules = TRUE] /\ SetupEnds(0)
       ELSE disk' = disk /\ SetupEnds(1)
    /\ UNCHANGED besidesSetup

\* the utility is run again, once the previous run has exited
SetupAgain ==
    /\ setupPc = "done"
    /\ Len(setupRuns) < MaxRuns
    /\ \E cli \in NpmCodes, deps \in NpmCodes : SetupStarts(cli, deps)
    /\ UNCHANGED <<besidesSetup, disk>>

NextSetup ==
    \/ SetupDirs
    \/ SetupInstallCli
    \/ SetupWriteConfig
    \/ SetupWriteScript
    \/ SetupWritePackage
    \/ SetupInstallDeps
    \/ SetupAgain

SpecSetup == InitSetup /\ [][NextSetup]_vars

(***************************************************************************)
(* The start utility, scripts/start-oc-registry.ts.                        *)
(***************************************************************************)
\* how many signals the start process receives at most
MaxSignals == 2

\* the signals `shutdown` is registered for (lines 111-112)
ShutdownSignals == {"SIGINT", "SIGTERM"}

\* lines 117-120: whatever is thrown inside startOpenComponentsRegistry ends
\* the process with status 1
StartFails == startPc' = "exited" /\ startExit' = 1

\* the utility is started on some registry directory, the setup utility not
\* running
InitStart ==
    /\ PipelineNotStarted
    /\ ScriptIdle
    /\ PairIdle
    /\ CleanIdle
    /\ disk \in Disks
    /\ setupPc = "idle"
    /\ setupExit = -1
    /\ setupRuns = <<>>
    /\ startPc = "main"
    /\ portInUse = FALSE
    /\ registryProc = "none"
    /\ handlers = FALSE
    /\ received = <<>>
    /\ sent = <<>>
    /\ timers = 0
    /\ startExit = -1

\* lines 13-20: without REGISTRY_DIR the setup utility is spawned and awaited.
\* setupProcess has no listener for `error`, so a setup that cannot be
\* spawned ends the start process with an uncaught exception (status 1)
StartCheckDir ==
    /\ startPc = "main"
    /\ IF disk.dir
       THEN /\ startPc' = "files"
            /\ UNCHANGED <<startExit, setupPc, setupExit, setupRuns>>
       ELSE \/ /\ \E cli \in NpmCodes, deps \in NpmCodes :
                     SetupStarts(cli, deps)
               /\ startPc' = "setup"
               /\ startExit' = startExit
            \/ /\ StartFails
               /\ UNCHANGED <<setupPc, setupExit, setupRuns>>
    /\ UNCHANGED <<besidesStart, disk, portInUse, registryProc, handlers,
                   received, sent, timers>>

\* faulty variant of StartSetupClosed: the promise resolves whatever the code
StartSetupClosedAnyCode ==
    /\ startPc = "setup"
    /\ setupPc = "done"
    /\ startPc' = "files"
    /\ UNCHANGED <<besidesStart, setupVars, portInUse, registryProc, handlers,
                   received, sent, timers, startExit>>

\* lines 21-29: the `close` listener of setupProcess resolves on code 0 and
\* rejects on any other
StartSetupClosed ==
    /\ startPc = "setup"
    /\ setupPc = "done"
    /\ IF setupExit = 0
       THEN startPc' = "files" /\ startExit' = startExit
       ELSE StartFails
    /\ UNCHANGED <<besidesStart, setupVars, portInUse, registryProc, handlers,
                   received, sent, timers>>

\* lines 34-39: config.json and start-registry.js must both exist
StartCheckFiles ==
    /\ startPc = "files"
    /\ IF disk.config = "absent" \/ disk.script = "absent"
       THEN StartFails
       ELSE startPc' = "port" /\ startExit' = startExit
    /\ UNCHANGED <<besidesStart, setupVars, portInUse, registryProc, handlers,
                   received, sent, timers>>

\* faulty variant of StartCheckPort: portInUse is set and not looked at
StartCheckPortIgnored ==
    /\ startPc = "port"
    /\ \E netstatOut \in {"listed", "clear", "error"} :
          portInUse' = (netstatOut = "listed")
    /\ startPc' = "spawn"
    /\ UNCHANGED <<besidesStart, setupVars, registryProc, handlers, received,
                   sent, timers, startExit>>

\* lines 41-77: `netstat -an` either lists the port, does not list it, or
\* cannot be run (its `error` listener only resolves); when the port is
\* listed the function returns, and the process, with nothing left to wait
\* for, ends with status 0
StartCheckPort ==
    /\ startPc = "port"
    /\ \E netstatOut \in {"listed", "clear", "error"} :
          portInUse' = (netstatOut = "listed")
    /\ IF portInUse'
       THEN startPc' = "returned" /\ startExit' = 0
       ELSE startPc' = "spawn" /\ startExit' = startExit
    /\ UNCHANGED <<besidesStart, setupVars, registryProc, handlers, received,
                   sent, timers>>

\* lines 79-115: `npm start` is spawned in REGISTRY_DIR and, in the same
\* turn, the listeners and the signal handlers are installed; a process that
\* cannot be spawned emits `error`, whose listener exits with status 1
StartSpawnRegistry ==
    /\ startPc = "spawn"
    /\ handlers' = TRUE
    /\ \/ /\ registryProc' = "running"
          /\ startPc' = "serving"
          /\ startExit' = startExit
       \/ /\ registryProc' = "failed"
          /\ StartFails
    /\ UNCHANGED <<besidesStart, setupVars, portInUse, received, sent, timers>>

\* lines 95-99: the `close` listener of registryProcess only logs
RegistryClosed ==
    /\ startPc = "serving"
    /\ registryProc = "running"
    /\ registryProc' = "closed"
    /\ UNCHANGED <<besidesStart, setupVars, startPc, portInUse, handlers,
                   received, sent, timers, startExit>>

\* faulty variant of shutdown: SIGKILL at once, no timer
shutdownAtOnce ==
    /\ startPc = "serving"
    /\ handlers
    /\ Len(received) < MaxSignals
    /\ \E sig \in ShutdownSignals : received' = Append(received, sig)
    /\ sent' = Append(sent, "SIGKILL")
    /\ startPc' = "exited"
    /\ startExit' = 0
    /\ UNCHANGED <<besidesStart, setupVars, portInUse, registryProc, handlers,
                   timers>>

\* lines 102-112: on SIGINT or SIGTERM, SIGTERM is sent to registryProcess
\* and a timer of 5 seconds is set
shutdown ==
    /\ startPc = "serving"
    /\ handlers
    /\ Len(received) < MaxSignals
    /\ \E sig \in ShutdownSignals : received' = Append(received, sig)
    /\ sent' = Append(sent, "SIGTERM")
    /\ timers' = timers + 1
    /\ UNCHANGED <<besidesStart, setupVars, startPc, portInUse, registryProc,
                   handlers, startExit>>

\* lines 105-108: the timer fires: SIGKILL is sent and the process exits with
\* status 0, so that no other pending timer fires
ShutdownTimer ==
    /\ startPc = "serving"
    /\ timers > 0
    /\ sent' = Append(sent, "SIGKILL")
    /\ timers' = 0
    /\ startPc' = "exited"
    /\ startExit' = 0
    /\ UNCHANGED <<besidesStart, setupVars, portInUse, registryProc, handlers,
                   received>>

\* what the start process and the setup process it spawned do on their own
StartStep ==
    \/ StartCheckDir
    \/ SetupDirs
    \/ SetupInstallCli
    \/ SetupWriteConfig
    \/ SetupWriteScript
    \/ SetupWritePackage
    \/ SetupInstallDeps
    \/ StartSetupClosed
    \/ StartCheckFiles
    \/ StartCheckPort
    \/ StartSpawnRegistry
    \/ ShutdownTimer

NextStart ==
    \/ StartCheckDir
    \/ SetupDirs
    \/ SetupInstallCli
    \/ SetupWriteConfig
    \/ SetupWriteScript
    \/ SetupWritePackage
    \/ SetupInstallDeps
    \/ StartSetupClosed
    \/ StartCheckFiles
    \/ StartCheckPort
    \/ StartSpawnRegistry
    \/ RegistryClosed
    \/ shutdown
    \/ ShutdownTimer

SpecStart == InitStart /\ [][NextStart]_vars

\* the timers fire and neither process stops on its own before it has ended
SpecStartLive == InitStart /\ [][NextStart]_vars /\ WF_vars(StartStep)

(***************************************************************************)
(* Vocabulary of the properties.                                           *)
(***************************************************************************)
Issued(c) == \E i \in DOMAIN cmds : cmds[i].c = c

IssuedWith(c, out) == \E i \in DOMAIN cmds : cmds[i].c = c /\ cmds[i].out = out

\* the stage a command belongs to: 2 install tooling, 3 scaffold, 4 generate,
\* 5 build, 6 publish, 7 verify (1 is the acquisition of the sandbox, which
\* issues no command; 0 is no stage)
StageOf(c) ==
    CASE c \in {InstallOcCmd, InstallSdkCmd} -> 2
      [] c = InitCmd -> 3
      [] c \in {WriteScriptCmd, GenerateCmd, ListFilesCmd} -> 4
      [] c \in {BuildCmd, DebugBuildCmd} -> 5
      [] c \in {PublishCmd, CheckRegistryCmd} -> 6
      [] c = TestComponentCmd -> 7
      [] OTHER -> 0

\* the commands whose exit code decides whether a stage succeeded
StageCommands(k) ==
    CASE k = 2 -> {InstallOcCmd, InstallSdkCmd}
      [] k = 3 -> {InitCmd}
      [] k = 4 -> {GenerateCmd}
      [] k = 5 -> {BuildCmd}
      [] k = 6 -> {PublishCmd}
      [] OTHER -> {}

\* stage k succeeded before the j-th command was issued
SucceededBefore(k, j) ==
    \A c \in StageCommands(k) :
        \E i \in 1..(j - 1) : cmds[i].c = c /\ cmds[i].out = "ok"

GenTimedOut == IssuedWith(GenerateCmd, "timeout")

\* a sandbox id was given, list() returned, and the id is not in the list
UnknownSandbox ==
    /\ \E i \in DOMAIN daytonaCalls : daytonaCalls[i] = [op |-> "list", out |-> "ok"]
    /\ sandboxId \notin alive

\* a sandbox id was given on the command line
IdGiven == ParsedSandboxId(args) # <<>>

\* the pipeline returned its result
Returned == result # <<>>

\* the registry's own base URL (setup, config.baseUrl `http://localhost:3030/`,
\* with the trailing slash) under the host name the sandbox reaches it by
RegistryBaseUrl == REGISTRY_URL \o <<"/">>

\* GET {baseUrl}{componentName}: where the registry serves a component
ServedAt(name) == RegistryBaseUrl \o name

(***************************************************************************)
(* C1.  No stage starts before its predecessor has succeeded: commands are *)
(* issued in stage order (install, scaffold, generate, build, publish,     *)
(* verify), only with a sandbox bound, each stage's first command only     *)
(* after every deciding command of the stage before exited with 0, and the *)
(* success result is returned only after all five stages succeeded.        *)
(***************************************************************************)
C1_StagesInOrder ==
    /\ cmds # <<>> => sandbox # <<>>
    /\ \A i, j \in DOMAIN cmds :
         i < j => StageOf(cmds[i].c) <= StageOf(cmds[j].c)
    /\ \A j \in DOMAIN cmds : SucceededBefore(StageOf(cmds[j].c) - 1, j)
    /\ result # <<>> => \A k \in 2..6 : SucceededBefore(k, Len(cmds) + 1)

(***************************************************************************)
(* C2.  `oc build .` is issued only when the view file and the manifest    *)
(* are both in the component directory; a generation that ends with one    *)
(* of them missing stops the run before the build.                         *)
(***************************************************************************)
C2_BuildRequiresCompleteArtifact ==
    (Issued(BuildCmd) \/ pc \in {"listFiles", "build"})
        => {ViewFile, ManifestFile} \subseteq files

(***************************************************************************)
(* C3.  After a deciding command of a stage other than verification ended  *)
(* otherwise than with exit code 0, no command of a later stage is issued  *)
(* and the same command is not issued again.                               *)
(***************************************************************************)
C3_FailureHalts ==
    \A i, j \in DOMAIN cmds :
        (/\ i < j
         /\ cmds[i].c \in StageCommands(StageOf(cmds[i].c))
         /\ cmds[i].out # "ok")
        => /\ StageOf(cmds[j].c) <= StageOf(cmds[i].c)
           /\ cmds[j].c # cmds[i].c

(***************************************************************************)
(* C4.  When either install command exits non-zero or times out, the run   *)
(* has failed (an error is raised) and `oc init` is never issued.          *)
(***************************************************************************)
C4_ToolInstallFailureStops ==
    \A i \in DOMAIN cmds :
        (cmds[i].c \in {InstallOcCmd, InstallSdkCmd} /\ cmds[i].out # "ok")
        => /\ error # NoError
           /\ ~Issued(InitCmd)

(***************************************************************************)
(* C5.  With a sandbox id that list() does not return, the run fails with  *)
(* the sandbox-not-found error, binds no sandbox, returns no result, makes *)
(* no further provider call and issues no command at all.                  *)
(***************************************************************************)
C5_UnknownSandboxFailsFirst ==
    UnknownSandbox
        => /\ error = ErrSandboxNotFound
           /\ sandbox = <<>>
           /\ cmds = <<>>
           /\ Len(daytonaCalls) = 1
           /\ result = <<>>
           /\ pc \in {"catch", "mainCatch", "exited"}

C5_Witness ==
    /\ UnknownSandbox
    /\ pc = "exited"
    /\ exitStatus = 1

\* the two publish failures of the error taxonomy.  The source has one
\* publish error, whose text blames the registry: it is taken to be
\* RegistryUnreachable, and no error of the source is PublishRejected
RegistryUnreachable == ErrPublish

PublishRejected == "Component publish rejected by the registry"

(***************************************************************************)
(* C6.  After a failed publish the error raised tells the probe's outcome: *)
(* RegistryUnreachable when the registry did not answer, PublishRejected   *)
(* when it did.                                                            *)
(***************************************************************************)
C6_PublishFailureDistinguished ==
    /\ IssuedWith(CheckRegistryCmd, "unreachable") => error = RegistryUnreachable
    /\ IssuedWith(CheckRegistryCmd, "ok") => error = PublishRejected

(***************************************************************************)
(* C7.  Once the verification probe has been issued (publish succeeded),   *)
(* the run does not fail, however the probe ends: no error is raised and   *)
(* the run goes on to return its success result.                           *)
(***************************************************************************)
C7_VerificationAdvisory ==
    Issued(TestComponentCmd)
        => /\ error = NoError
           /\ pc \in {"success", "returned", "exited"}

(***************************************************************************)
(* C8.  The pipeline never tears a sandbox down: the only calls made to    *)
(* the provider are list and create, the sandbox that existed before the   *)
(* run still exists, and the sandbox the run acquired exists in every      *)
(* state, the final ones (success, failure, SIGINT) included.              *)
(***************************************************************************)
C8_SandboxKeptAlive ==
    /\ \A i \in DOMAIN daytonaCalls : daytonaCalls[i].op \in {"list", "create"}
    /\ ExistingId \in alive
    /\ sandbox # <<>> => sandbox \in alive
    /\ \A i \in DOMAIN cmds : cmds[i].sb \in alive

C8_Witness ==
    /\ pc = "exited"
    /\ exitStatus = 1
    /\ sandbox = CreatedId
    /\ Issued(BuildCmd)

(***************************************************************************)
(* C9.  When the generation command runs into its timeout, the run fails   *)
(* with the timeout error raised for that command, no build or publish     *)
(* command is issued, nothing at all is issued afterwards but the          *)
(* read-only debug listing, no result is returned, and from then on the    *)
(* files of the component directory stay as the session left them.         *)
(***************************************************************************)
C9_GenerationTimeout ==
    /\ [](GenTimedOut
            => /\ error = CommandTimeout
               /\ result = <<>>
               /\ pc \in {"catch", "mainCatch", "exited"}
               /\ \A i \in DOMAIN cmds :
                    /\ cmds[i].c \notin {BuildCmd, DebugBuildCmd, PublishCmd}
                    /\ cmds[i].c = GenerateCmd
                         => \A j \in DOMAIN cmds : j > i => cmds[j].c = DebugInfoCmd)
    /\ [][GenTimedOut => files' = files]_vars

C9_Witness ==
    /\ GenTimedOut
    /\ pc = "exited"
    /\ exitStatus = 1
    /\ ViewFile \in files
    /\ ManifestFile \notin files

(***************************************************************************)
(* C10.  For every prompt the component name is non-empty, at most 30      *)
(* characters long and made of lowercase letters, digits and hyphens; it   *)
(* is the default name when the derivation yields the empty text and the   *)
(* derived text otherwise.                                                 *)
(***************************************************************************)
C10_NameWellFormed ==
    pc = "init"
        => /\ componentName # <<>>
           /\ Len(componentName) <= NameLimit
           /\ \A i \in DOMAIN componentName :
                componentName[i] \in LowerLetters \cup Digits \cup {Hyphen}
           /\ Slug(prompt) = <<>> => componentName = GeneratedComponent
           /\ Slug(prompt) # <<>> => componentName = Slug(prompt)

C10_Witness ==
    /\ pc = "init"
    /\ Len(prompt) > NameLimit
    /\ prompt[NameLimit] = " "
    /\ Len(componentName) = NameLimit - 1

(***************************************************************************)
(* C11.  For the prompt "Create a button component" and no sandbox id, the *)
(* run creates a sandbox and never lists, `oc init` is given the name      *)
(* create-a-button-component, and the result returned has success = true   *)
(* and a componentUrl that is the registry URL immediately followed by the *)
(* name and is the URL at which the registry serves the component.         *)
(***************************************************************************)
CreateAButtonComponent ==
    <<"c","r","e","a","t","e","-","a","-","b","u","t","t","o","n","-","c","o",
      "m","p","o","n","e","n","t">>

C11_ButtonEndToEnd ==
    args = <<ButtonPrompt>>
        => /\ pc = "start" => prompt = ButtonPrompt /\ sandboxId = <<>>
           /\ \A i \in DOMAIN daytonaCalls : daytonaCalls[i].op = "create"
           /\ \A i \in DOMAIN cmds :
                cmds[i].c = InitCmd => cmds[i].arg = CreateAButtonComponent
           /\ Returned
                => /\ result[1].success
                   /\ result[1].componentName = CreateAButtonComponent
                   /\ result[1].componentUrl = REGISTRY_URL \o CreateAButtonComponent
                   /\ result[1].componentUrl = ServedAt(CreateAButtonComponent)

\* the calls of the Daytona client made so far, by operation
CallsOf(op) == {i \in DOMAIN daytonaCalls : daytonaCalls[i].op = op}

\* the acquire stage (lines 30-47) is over
Acquired == error # NoError \/ cmds # <<>> \/ rootDir # <<>> \/ Returned

(***************************************************************************)
(* C12. Reattachment does not create a new instance: a run given a sandbox *)
(* id never calls create(), whether or not the id is found, and calls      *)
(* list() once; a run given no id never calls list() and calls create()    *)
(* exactly once (never more, and once by the time the acquire stage is     *)
(* over).                                                                  *)
(***************************************************************************)
C12_ReattachDoesNotCreate ==
    /\ IdGiven
         => /\ CallsOf("create") = {}
            /\ Cardinality(CallsOf("list")) <= 1
            /\ Acquired => Cardinality(CallsOf("list")) = 1
    /\ ~IdGiven
         => /\ CallsOf("list") = {}
            /\ Cardinality(CallsOf("create")) <= 1
            /\ Acquired => Cardinality(CallsOf("create")) = 1

\* a run given an id that the provider does not list has ended
C12_Witness ==
    /\ IdGiven
    /\ error = ErrSandboxNotFound
    /\ pc = "exited"
    /\ CallsOf("list") # {}

\* the stage the run failed in: the stage of the last command issued, the
\* acquisition of the sandbox when none was
FailingStage == IF cmds = <<>> THEN 1 ELSE StageOf(cmds[Len(cmds)].c)

\* the catch block of lines 366-387 has printed its report
Reported == pc = "mainCatch" /\ error # NoError

\* the report identifies the sandbox id: on its `Sandbox ID:` line, or in
\* the message of line 36, which quotes the id
ReportCarries(id) ==
    \/ ErrorReport.sandboxId = <<id>>
    \/ ErrorReport.message = ErrSandboxNotFound /\ id = sandboxId

(***************************************************************************)
(* C13. On any stage failure the failure report carries the name of the    *)
(* failing stage, the error message and the identifier of the retained     *)
(* sandbox (the one supplied or created), for every stage, failures raised *)
(* while the sandbox reference is not yet bound included.                  *)
(***************************************************************************)
C13_FailureReportComplete ==
    Reported
        => /\ ErrorReport.message = error
           /\ StageNamedBy(ErrorReport.message) = FailingStage
           /\ sandboxId # <<>> => ReportCarries(sandboxId)

(***************************************************************************)
(* C14. On success the returned result has sandboxId equal to the id of    *)
(* the sandbox in which every remote command of the run was executed: the  *)
(* supplied id on reattachment, the id of the newly created sandbox        *)
(* otherwise; componentName is the name passed to `oc init`, and           *)
(* componentDir is the sandbox root directory joined with that name.       *)
(***************************************************************************)
C14_ResultIdentifiesRun ==
    Returned
        => /\ \A i \in DOMAIN cmds : cmds[i].sb = result[1].sandboxId
           /\ result[1].sandboxId
                = IF IdGiven THEN ParsedSandboxId(args) ELSE CreatedId
           /\ result[1].sandboxId \in alive
           /\ \E i \in DOMAIN cmds :
                cmds[i].c = InitCmd /\ cmds[i].arg = result[1].componentName
           /\ \A i \in DOMAIN cmds :
                cmds[i].c = InitCmd => cmds[i].arg = result[1].componentName
           /\ result[1].componentDir
                = UserRootDir \o <<"/">> \o result[1].componentName

\* a run without a supplied id has returned its result
C14_Witness ==
    /\ Returned
    /\ ~IdGiven
    /\ result[1].sandboxId = CreatedId
    /\ Len(cmds) >= 6

\* a run reattached to a supplied sandbox has returned its result
C14_WitnessReattached ==
    /\ Returned
    /\ IdGiven
    /\ result[1].sandboxId = ExistingId

\* main has called the pipeline (line 420)
PipelineCalled ==
    pc \notin {"main", "exited"} \/ daytonaCalls # <<>> \/ cmds # <<>>

(***************************************************************************)
(* C15. Argument parsing in main: if the first argument matches the UUID   *)
(* pattern it becomes the sandbox id and the remaining arguments joined by *)
(* spaces become the prompt; otherwise no sandbox id is set and all        *)
(* arguments joined form the prompt; whenever the resulting prompt is      *)
(* empty (no arguments, or a UUID alone) the fixed default prompt is used, *)
(* so the pipeline is never called with an empty prompt.                   *)
(***************************************************************************)
C15_ArgumentParsing ==
    /\ pc = "start"
         => LET uuidFirst == Len(args) > 0 /\ uuidRegex(args[1])
                words == IF uuidFirst THEN Tail(args) ELSE args
            IN  /\ sandboxId = IF uuidFirst THEN args[1] ELSE <<>>
                /\ prompt = IF Join(words) = <<>> THEN DefaultPrompt
                            ELSE Join(words)
                /\ words = <<>> => prompt = DefaultPrompt
    /\ PipelineCalled => prompt # <<>>

\* main was given a UUID alone and calls the pipeline with the default prompt
C15_Witness ==
    /\ args = <<ExistingId>>
    /\ pc = "start"
    /\ sandboxId = ExistingId
    /\ prompt = DefaultPrompt

\* the session of the generated script has ended
SessionEnded == scriptPc \in {"done", "failed", "aborted"}

\* the events held by generation-log.json, none when the file is absent
Persisted == IF logFile = <<>> THEN <<>> ELSE logFile[1]

(***************************************************************************)
(* C16. Every event yielded by the session is persisted, in arrival order  *)
(* and as it is consumed, none dropped or reordered: wherever the session  *)
(* ends (natural completion, error raised by the stream, or abort) the     *)
(* persisted log holds exactly the events consumed so far, in the order    *)
(* they arrived.                                                           *)
(***************************************************************************)
C16_EventsPersisted ==
    SessionEnded => Persisted = messages

(***************************************************************************)
(* C17. An external cancellation signal raised during a run (SIGINT to the *)
(* pipeline process) stops the run and is not silently swallowed: the      *)
(* process ends, and not with the success exit status.                     *)
(***************************************************************************)
C17_InterruptSurfacesAsFailure ==
    interrupted => pc = "exited" /\ exitStatus # 0

\* the process ended through main (lines 419-424), not through the signal
\* handler
ExitedFromMain == pc = "exited" /\ ~interrupted

(***************************************************************************)
(* C18. Every pipeline failure ends in a thrown error from                 *)
(* generateOpenComponentInDaytona (it never returns a result) and a        *)
(* non-zero process exit from main; exit status 0 from main's normal flow  *)
(* occurs only when the pipeline returned success = true.                  *)
(***************************************************************************)
C18_FailureExitsNonZero ==
    /\ error # NoError
         => /\ ~Returned
            /\ pc \in {"catch", "mainCatch", "exited"}
            /\ pc = "exited" => interrupted \/ exitStatus = 1
    /\ ExitedFromMain
         => /\ exitStatus \in {0, 1}
            /\ exitStatus = 0
                 => Returned /\ result[1].success /\ error = NoError

\* the build failed and main ended the process
C18_Witness ==
    /\ ExitedFromMain
    /\ error = ErrBuild
    /\ exitStatus = 1

\* how run r ended: 0 success, k failed at stage k, -1 still running
Outcome(r) ==
    IF runFailed[r] # 0 THEN runFailed[r]
    ELSE IF runStage[r] = 7 THEN 0
    ELSE -1

\* how run r ends when it runs alone, against a registry that holds nothing
SoloOutcome(r) == fate[r]

(***************************************************************************)
(* C19. Two pipeline runs that use distinct sandbox ids are fully          *)
(* independent: under any interleaving of their stages each run ends       *)
(* (success, or the stage it fails at) as it would have ended alone, also  *)
(* when both derive the same component name and publish to the same        *)
(* registry.                                                               *)
(***************************************************************************)
C19_RunsIndependent ==
    \A r \in Runs : Outcome(r) # -1 => Outcome(r) = SoloOutcome(r)

\* main of the clean utility returned normally
CleanRunCompleted == cleanPc \in {"refused", "nothing", "busy", "complete"}

\* the registry directory is clean: an empty components directory, no temp
\* directory, none of the known log files
RegistryClean ==
    /\ fs["components"] = "dir"
    /\ published = {}
    /\ fs["temp"] = "absent"
    /\ \A i \in DOMAIN possibleLogFiles : fs[possibleLogFiles[i]] = "absent"

PositionsOf(c) == {i \in DOMAIN cmds : cmds[i].c = c}

\* the try block of lines 29-364 has been left by a throw
Thrown == pc \in {"catch", "mainCatch"} \/ (pc = "exited" /\ error # NoError)

(***************************************************************************)
(* C21. When `oc build .` exits non-zero, the build is re-invoked in       *)
(* verbose mode exactly once, as the next command, for diagnostics only    *)
(* (never after a build that succeeded); the run then fails, with          *)
(* `Component build failed` whatever the verbose invocation returns (exit  *)
(* code 0 included), and the publish command is never issued after a       *)
(* failed first build.                                                     *)
(***************************************************************************)
C21_FailedBuildDiagnosedThenFails ==
    /\ \A i \in PositionsOf(BuildCmd) :
         cmds[i].out = "nonzero"
           => /\ ~Returned
              /\ pc \in {"debugBuild", "catch", "mainCatch", "exited"}
              /\ PositionsOf(PublishCmd) = {}
              /\ PositionsOf(DebugBuildCmd) \subseteq {i + 1}
              /\ Thrown
                   => /\ PositionsOf(DebugBuildCmd) = {i + 1}
                      /\ Len(cmds) = i + 1
                      /\ cmds[i + 1].out \in {"ok", "nonzero"}
                           => error = ErrBuild
                      /\ error # NoError
    /\ \A j \in PositionsOf(DebugBuildCmd) :
         j > 1 /\ cmds[j - 1].c = BuildCmd /\ cmds[j - 1].out = "nonzero"
    /\ Cardinality(PositionsOf(BuildCmd)) <= 1

\* the first build failed, the verbose build exited with 0, and the run
\* failed with the build error
C21_Witness ==
    /\ pc = "mainCatch"
    /\ error = ErrBuild
    /\ \E i \in PositionsOf(BuildCmd) :
         /\ cmds[i].out = "nonzero"
         /\ Len(cmds) = i + 1
         /\ cmds[i + 1].c = DebugBuildCmd
         /\ cmds[i + 1].out = "ok"

(***************************************************************************)
(* C22. The registry reachability probe (`curl -f <registry base URL>`)    *)
(* is issued if and only if the publish command exited non-zero: only      *)
(* right after such a publish, and always after one; after the probe the   *)
(* run always fails and the verification probe of the component URL is     *)
(* never issued.                                                           *)
(***************************************************************************)
C22_RegistryProbeOnlyAfterFailedPublish ==
    /\ \A j \in PositionsOf(CheckRegistryCmd) :
         /\ j > 1
         /\ cmds[j - 1].c = PublishCmd
         /\ cmds[j - 1].out = "nonzero"
         /\ cmds[j].arg = REGISTRY_URL
         /\ j = Len(cmds)
         /\ ~Returned
         /\ error # NoError
         /\ pc \in {"catch", "mainCatch", "exited"}
    /\ \A i \in PositionsOf(PublishCmd) :
         /\ cmds[i].out = "nonzero"
              => /\ PositionsOf(TestComponentCmd) = {}
                 /\ ~Returned
                 /\ pc \in {"checkRegistry", "catch", "mainCatch", "exited"}
                 /\ Thrown => PositionsOf(CheckRegistryCmd) = {i + 1}
         /\ cmds[i].out # "nonzero" => PositionsOf(CheckRegistryCmd) = {}
    /\ Cardinality(PositionsOf(CheckRegistryCmd)) <= 1

\* the publish exited non-zero, the registry answered the probe, and the
\* run failed
C22_Witness ==
    /\ pc = "mainCatch"
    /\ error = ErrPublish
    /\ \E j \in PositionsOf(CheckRegistryCmd) :
         cmds[j].out = "ok" /\ cmds[j - 1].out = "nonzero"

\* the step issues a command that times out
TimesOut ==
    /\ Len(cmds') = Len(cmds) + 1
    /\ cmds'[Len(cmds')].out = "timeout"

\* some command of the run has timed out
SomeTimedOut == \E i \in DOMAIN cmds : cmds[i].out = "timeout"

(***************************************************************************)
(* C23. A timeout of one remote command (tooling install, scaffold, build, *)
(* publish, verification probe) cancels only that operation: the step      *)
(* leaves the sandbox alive, makes no call of the provider, leaves the     *)
(* record of the commands issued before it and, outside the generation     *)
(* command itself, the files of the component as they were; and at no      *)
(* later point of the run is the sandbox torn down.                        *)
(***************************************************************************)
C23_TimeoutCancelsOnlyItsCommand ==
    /\ [][TimesOut
            => /\ alive' = alive
               /\ daytonaCalls' = daytonaCalls
               /\ sandbox' = sandbox
               /\ SubSeq(cmds', 1, Len(cmds)) = cmds
               /\ cmds'[Len(cmds')].c # GenerateCmd => files' = files]_vars
    /\ [](SomeTimedOut
            => /\ sandbox \in alive
               /\ \A i \in DOMAIN daytonaCalls :
                    daytonaCalls[i].op \in {"list", "create"})

\* the publish command timed out and the run has failed; the sandbox and the
\* build before it are as they were
C23_Witness ==
    /\ pc = "mainCatch"
    /\ error = CommandTimeout
    /\ cmds[Len(cmds)].c = PublishCmd
    /\ cmds[Len(cmds)].out = "timeout"
    /\ \E i \in PositionsOf(BuildCmd) : cmds[i].out = "ok"
    /\ sandbox \in alive

\* the text of the prompt after truncation (line 84), before the hyphens are
\* trimmed
Truncated(p) ==
    LimitLength(SpacesToHyphens(RemoveSpecialChars(toLowerCase(p))))

(***************************************************************************)
(* C24. The derived component name never begins or ends with a hyphen,     *)
(* also when the truncation to 30 characters cuts the text right after a   *)
(* hyphen: the hyphens are trimmed after the truncation.                   *)
(***************************************************************************)
C24_NoEdgeHyphen ==
    pc = "init"
        => /\ componentName # <<>>
           /\ componentName[1] # Hyphen
           /\ componentName[Len(componentName)] # Hyphen

\* the truncation cut the text right after a hyphen, and the name derived
\* is the text before that hyphen
C24_Witness ==
    /\ pc = "init"
    /\ Len(Truncated(prompt)) = NameLimit
    /\ Truncated(prompt)[NameLimit] = Hyphen
    /\ Truncated(prompt)[NameLimit - 1] # Hyphen
    /\ componentName = SubSeq(Truncated(prompt), 1, NameLimit - 1)

\* generateOpenComponentInDaytona has returned its result or thrown to main
RunEnded == pc \in {"returned", "mainCatch"} \/ (pc = "exited" /\ ~interrupted)

(***************************************************************************)
(* C25. Every pipeline run terminates: provided each remote command and    *)
(* each list/create call eventually returns, exits non-zero, times out or  *)
(* raises, a run that has entered the try block eventually ends, unless    *)
(* the process is interrupted first, in exactly one of two ways, the       *)
(* success result or a rethrown failure, and issues no sandbox command or  *)
(* provider call afterwards.                                               *)
(***************************************************************************)
C25_RunTerminates ==
    /\ (pc = "acquire") ~> (RunEnded \/ interrupted)
    /\ [](pc \in {"returned", "mainCatch"} => (Returned <=> error = NoError))
    /\ [][(pc \in {"returned", "mainCatch", "exited"})
            => /\ cmds' = cmds
               /\ daytonaCalls' = daytonaCalls
               /\ result' = result
               /\ error' = error]_vars

\* a run went through every stage and returned
C25_Witness ==
    /\ pc = "returned"
    /\ Returned
    /\ Len(cmds) = 9
    /\ cmds[9].c = TestComponentCmd

(***************************************************************************)
(* C26. Name derivation is deterministic and idempotent: the name is a     *)
(* function of the prompt alone, and deriving a name from a derived name   *)
(* (the default `generated-component` included) returns it unchanged.      *)
(***************************************************************************)
C26_DerivationIdempotent ==
    /\ pc = "init"
         => /\ componentName = ComponentNameOf(prompt)
            /\ ComponentNameOf(componentName) = componentName
    /\ ComponentNameOf(GeneratedComponent) = GeneratedComponent

\* a name of full length has been derived from a longer prompt
C26_Witness ==
    /\ pc = "init"
    /\ Len(prompt) > NameLimit
    /\ Len(componentName) = NameLimit
    /\ componentName # prompt

(***************************************************************************)
(* C27. In the failure handler the debug-information command is issued     *)
(* only if a sandbox was acquired and at most once, an error raised by the *)
(* attempt is swallowed, and the error rethrown to the caller is always    *)
(* the error of the stage, never one of the debug command.                 *)
(***************************************************************************)
C27_DebugInfoNeverMasksError ==
    /\ [](/\ \A i \in PositionsOf(DebugInfoCmd) : cmds[i].sb # <<>>
          /\ Cardinality(PositionsOf(DebugInfoCmd)) <= 1
          /\ PositionsOf(DebugInfoCmd) # {} => pc \in {"mainCatch", "exited"})
    /\ [][pc = "catch" /\ pc' # "exited"
            => /\ pc' = "mainCatch"
               /\ error' = error
               /\ error # NoError
               /\ result' = result
               /\ exitStatus' = exitStatus]_vars

\* the handler has run with a sandbox acquired and rethrown the error of
\* the scaffold stage
C27_Witness ==
    /\ pc = "mainCatch"
    /\ sandbox # <<>>
    /\ error = ErrInit
    /\ cmds[Len(cmds)].c \in {InitCmd, DebugInfoCmd}

\* one of the two credentials is missing from the environment
CredentialMissing == ~env["DAYTONA_API_KEY"] \/ ~env["ANTHROPIC_API_KEY"]

(***************************************************************************)
(* C28. If either credential (DAYTONA_API_KEY or ANTHROPIC_API_KEY) is     *)
(* missing, the run exits with status 1 before any sandbox is listed or    *)
(* created and before any remote command is issued.                        *)
(***************************************************************************)
C28_MissingCredentialExitsFirst ==
    CredentialMissing
        => /\ daytonaCalls = <<>>
           /\ cmds = <<>>
           /\ sandbox = <<>>
           /\ alive = {ExistingId}
           /\ pc \in {"main", "start", "exited"}
           /\ ~Returned
           /\ ExitedFromMain => exitStatus = 1

\* the Anthropic key alone is missing and the process has exited with 1
C28_Witness ==
    /\ env["DAYTONA_API_KEY"]
    /\ ~env["ANTHROPIC_API_KEY"]
    /\ pc = "exited"
    /\ ~interrupted
    /\ exitStatus = 1

\* the step leaves the registry directory as it is
RegistryUntouched ==
    /\ registryDir' = registryDir
    /\ fs' = fs
    /\ published' = published

(***************************************************************************)
(* C29. The clean utility deletes nothing unless --force (or -f) is among  *)
(* its arguments: without the flag cleanRegistry is never called, main     *)
(* returns after its warning, and no step changes the registry directory.  *)
(***************************************************************************)
C29_NothingDeletedWithoutForce ==
    /\ []((cleanArgs \cap {"--force", "-f"} = {})
            => /\ cleanPc \in {"main", "refused"}
               /\ componentsCount = 0
               /\ ~isRunning
               /\ cleanPc = "refused" => cleanExit = 0)
    /\ [][(cleanArgs \cap {"--force", "-f"} = {}) => RegistryUntouched]_vars

\* the utility was run without the flag on a registry directory that holds
\* components, a temp directory and a log file, and has returned
C29_Witness ==
    /\ cleanArgs = {"--help"}
    /\ cleanPc = "refused"
    /\ published = ComponentNames
    /\ fs["temp"] = "dir"
    /\ fs["registry.log"] = "file"

(***************************************************************************)
(* C30. The clean utility deletes nothing while the registry is detected   *)
(* as running on port 3030: if the port check finds the port in use,       *)
(* cleanRegistry returns before removing the components directory, the     *)
(* temp directory, the log files or node_modules.                          *)
(***************************************************************************)
C30_NothingDeletedWhileRunning ==
    /\ [](isRunning => cleanPc = "busy" /\ cleanExit = 0)
    /\ [](cleanPc \in {"removeComponents", "removeTemp", "removeLogs",
                       "recreate", "reinstall", "complete"}
            => ~isRunning /\ netstat # "listed")
    /\ [][netstat = "listed" => RegistryUntouched]_vars

\* the port was found in use on a registry directory that holds components,
\* node_modules and a log file, and the utility has returned
C30_Witness ==
    /\ cleanPc = "busy"
    /\ isRunning
    /\ published = ComponentNames
    /\ fs["node_modules"] = "dir"
    /\ fs["error.log"] = "file"

(***************************************************************************)
(* C31. In the clean utility the port check fails open: when the netstat   *)
(* process cannot be run (its error event fires) the registry is treated   *)
(* as not running and the cleanup proceeds to delete the components        *)
(* directory, exactly as when the check found the port free.               *)
(***************************************************************************)
C31_PortCheckFailsOpen ==
    /\ [](netstat = "error" => ~isRunning /\ cleanPc # "busy")
    /\ [][(cleanPc = "checkPort" /\ netstat \in {"error", "clear"}
             /\ cleanPc' # cleanPc)
            => /\ cleanPc' = "removeComponents"
               /\ ~isRunning'
               /\ RegistryUntouched]_vars
    /\ [][(cleanPc = "removeComponents" /\ cleanPc' = "removeTemp")
            => /\ netstat \in {"error", "clear"}
               /\ fs'["components"] = "absent"
               /\ published' = {}]_vars

\* netstat could not be run while a registry was serving, and the cleanup
\* has removed its two components and completed
C31_Witness ==
    /\ netstat = "error"
    /\ registryRunning
    /\ cleanPc = "complete"
    /\ componentsCount = 2
    /\ published = {}

(***************************************************************************)
(* C32: when the start utility detects port 3030 as in use (portInUse), it *)
(* returns: no `npm start` has been or will be spawned by it, and no       *)
(* signal handler has been or will be installed.                           *)
(***************************************************************************)
C32_NoSecondRegistry ==
    /\ [](portInUse => /\ startPc = "returned"
                       /\ registryProc = "none"
                       /\ ~handlers)
    /\ [][portInUse => /\ portInUse'
                       /\ registryProc' = "none"
                       /\ ~handlers']_vars

\* the port was found in use after a setup that the utility ran itself
C32_Witness ==
    /\ portInUse
    /\ startPc = "returned"
    /\ setupRuns # <<>>
    /\ registryProc = "none"

\* the setup process has exited with a code other than 0
SetupFailed == setupPc = "done" /\ setupExit # 0

\* config.json or start-registry.js does not exist
FilesMissing == disk.config = "absent" \/ disk.script = "absent"

\* the start process has exited with status 1 without spawning the registry
ExitedOneUnspawned ==
    startPc = "exited" /\ startExit = 1 /\ registryProc = "none"

(***************************************************************************)
(* C33: without the registry directory the start utility first runs the    *)
(* setup script (or ends with status 1 when it cannot); a registry process *)
(* exists only if the directory was there or setup has exited with 0, and  *)
(* only with config.json and start-registry.js present; after a setup that *)
(* exited non-zero, and after a check that found one of the two files      *)
(* missing, the registry is never spawned and the process exits with       *)
(* status 1.                                                               *)
(***************************************************************************)
C33_SetupBeforeRegistry ==
    /\ [][(startPc = "main" /\ ~disk.dir /\ startPc' # startPc)
            => \/ startPc' = "setup" /\ setupPc' = "dirs"
                    /\ registryProc' = "none"
               \/ ExitedOneUnspawned']_vars
    /\ [](registryProc # "none"
            => /\ disk.dir
               /\ ~FilesMissing
               /\ setupRuns # <<>> => setupPc = "done" /\ setupExit = 0)
    /\ [](startPc = "setup" => registryProc = "none")
    /\ [](SetupFailed => registryProc = "none")
    /\ SetupFailed ~> ExitedOneUnspawned
    /\ [][(startPc = "files" /\ FilesMissing /\ startPc' # startPc)
            => ExitedOneUnspawned']_vars
    /\ (startPc = "files" /\ FilesMissing) ~> ExitedOneUnspawned

\* setup wrote both files, failed on the registry dependencies, and the start
\* utility exited with 1 without spawning the registry
C33_Witness ==
    /\ setupRuns # <<>>
    /\ SetupRun.before = NoRegistryDir
    /\ SetupFailed
    /\ ~FilesMissing
    /\ ExitedOneUnspawned

\* the positions of sent at which SIGKILL was sent
Kills == {i \in DOMAIN sent : sent[i] = "SIGKILL"}

\* the start process has exited with status 0 right after sending SIGKILL
KilledAndExited ==
    /\ startPc = "exited"
    /\ startExit = 0
    /\ sent # <<>>
    /\ sent[Len(sent)] = "SIGKILL"

(***************************************************************************)
(* C34: each SIGINT or SIGTERM the start utility receives after spawning   *)
(* the registry sends SIGTERM to the registry process and leaves the start *)
(* process running; SIGKILL is sent only by a firing timer, once, after at *)
(* least one SIGTERM, and in the same step the process exits with status   *)
(* 0; once a signal was received this eventually happens, however many     *)
(* signals were received before the timer fired.                           *)
(***************************************************************************)
C34_GracefulShutdown ==
    /\ [][received' # received
            => /\ registryProc # "none"
               /\ sent' = Append(sent, "SIGTERM")
               /\ timers' = timers + 1
               /\ startPc' = "serving"
               /\ startExit' = -1]_vars
    /\ [][(sent' # sent /\ sent'[Len(sent')] = "SIGKILL")
            => /\ timers > 0
               /\ received # <<>>
               /\ startPc' = "exited"
               /\ startExit' = 0]_vars
    /\ [](sent # <<>> => sent[1] = "SIGTERM")
    /\ [](\A i \in Kills : i = Len(sent) /\ i = Len(received) + 1)
    /\ [](Kills # {} => KilledAndExited)
    /\ (received # <<>>) ~> KilledAndExited

\* SIGINT and then SIGTERM arrived before the first timer fired, while the
\* registry was running
C34_Witness ==
    /\ received = <<"SIGINT", "SIGTERM">>
    /\ sent = <<"SIGTERM", "SIGTERM", "SIGKILL">>
    /\ registryProc = "running"
    /\ KilledAndExited

\* a registry directory that was set up: both directories and the three files
SetUp(d) ==
    /\ d.dir
    /\ d.components
    /\ d.config # "absent"
    /\ d.script # "absent"
    /\ d.package # "absent"

\* the runs of the setup utility that have exited
Finished == {i \in DOMAIN setupRuns : setupRuns[i].exit # -1}

====
